---- MODULE Spec2Model ----
(***************************************************************************)
(* A model of the geospatial core of crux_geo_app:                         *)
(*   - Way<T> and RecordedWay   (shared/src/geo_app/geo_types.rs)          *)
(*   - the saved-position registry of the application model, in its two    *)
(*     versions (shared/src/geo_app/mod.rs and shared/src/geo_app.rs)      *)
(*   - the selection of the saved positions to view                       *)
(*     (shared/src/geo_app/view_types.rs and shared/src/geo_app.rs)        *)
(* Option<T> is modelled as a sequence of length at most one.  Lengths and *)
(* timestamps are integers; coordinates are points of one meridian, so the *)
(* geodesic distance of two coordinates is the absolute difference.        *)
(***************************************************************************)
EXTENDS Integers, Sequences, FiniteSets, Bags, TLC

\* ------------------------------------------------------------------ bounds
MaxCoord == 1
MaxAcc == 2
MaxTime == 3
MaxNodes == 3
\* bounds of the application model
MaxAppTime == 1
MaxNames == 2
\* the tasks crux_geolocation has spawned at a time, the requests it sends
MaxTasks == 2
MaxSent == 4
\* the position watchers and retry timeouts of the browser at a time, the
\* retries counted
MaxWatchers == 3
MaxRetries == 2
\* The retries of a watch that keeps failing.
MaxRetryCount == 64
\* The Now requests and the timers that can be outstanding at a time.
MaxTimers == 2

\* ------------------------------------------------------------- Option<T>
None == << >>
Some(x) == << x >>
IsSome(o) == o # << >>
Unwrap(o) == o[1]

\* Result<usize, usize> of a binary search (indices are 0-based as in Rust).
Ok(i) == [ok |-> TRUE, idx |-> i]
Err(i) == [ok |-> FALSE, idx |-> i]

\* ------------------------------------------------------------ value sets
LatLongs == 0 .. MaxCoord
Lengths == 1 .. MaxAcc
OptLengths == {None} \cup {Some(a) : a \in Lengths}
Timestamps == 1 .. MaxTime

\* struct Position { coords, accuracy } (altitude and altitude_accuracy are
\* carried along exactly like accuracy and are never inspected by the core).
Position == [coords : LatLongs, accuracy : OptLengths]
\* struct PosWithTimestamp { pos, timestamp }
PosWithTimestamp == [pos : Position, timestamp : Timestamps]
\* struct GeoInfo { timestamp, coords, accuracy, .. }
GeoInfo == [timestamp : Timestamps, coords : LatLongs, accuracy : OptLengths]

\* trait Coords: coords() and accuracy() of Position, PosWithTimestamp, GeoInfo.
coords(p) == IF "pos" \in DOMAIN p THEN p.pos.coords ELSE p.coords
accuracy(p) == IF "pos" \in DOMAIN p THEN p.pos.accuracy ELSE p.accuracy

\* impl From<&T: RecordedPos> for PosWithTimestamp
PosWithTimestamp_from(x) ==
    [pos |-> [coords |-> coords(x), accuracy |-> accuracy(x)],
     timestamp |-> x.timestamp]

\* PLANET.distance(a.nvector(), b.nvector()) for two points of one meridian.
Distance(a, b) == IF a < b THEN b - a ELSE a - b

\* f64::total_cmp
total_cmp(x, y) == IF x < y THEN "Less" ELSE IF x = y THEN "Equal" ELSE "Greater"

\* ------------------------------------------------------- vector helpers
\* Vec::insert(i, x) / Vector::insert(i, x), 0-based index i <= len.
VecInsert(s, i, x) == SubSeq(s, 1, i) \o << x >> \o SubSeq(s, i + 1, Len(s))
\* Vec::remove(i) / Vector::remove(i), 0-based index i < len.
VecRemove(s, i) == SubSeq(s, 1, i) \o SubSeq(s, i + 2, Len(s))

\* The loop of binary_search_by: cmps[k+1] is the comparator's answer for
\* element k.
RECURSIVE BinarySearchLoop(_, _, _)
BinarySearchLoop(cmps, base, size) ==
    IF size > 1
    THEN LET half == size \div 2
             mid == base + half
         IN BinarySearchLoop(cmps,
                             IF cmps[mid + 1] = "Greater" THEN base ELSE mid,
                             size - half)
    ELSE base

\* binary_search_by(f) of slices and of imbl::Vector, given the sequence of
\* the answers f(&self[k]).
BinarySearchBy(cmps) ==
    IF Len(cmps) = 0 THEN Err(0)
    ELSE LET base == BinarySearchLoop(cmps, 0, Len(cmps))
         IN CASE cmps[base + 1] = "Equal" -> Ok(base)
              [] cmps[base + 1] = "Greater" -> Err(base)
              [] OTHER -> Err(base + 1)

\* A faulty insert_ord_by that pushes the item to the back.
InsertOrdBy_push_back(v, item) == Append(v, item)

\* accuracies.insert_ord_by(item, |x, y| x.total_cmp(y)): the comparator is
\* applied as f(scan_item, item).
InsertOrdBy(v, item) ==
    VecInsert(v, BinarySearchBy([k \in 1 .. Len(v) |-> total_cmp(v[k], item)]).idx, item)

\* accuracies.sort_by(|x, y| x.total_cmp(y))
RECURSIVE SortBy(_)
SortBy(v) ==
    IF Len(v) = 0 THEN << >>
    ELSE LET rest == SortBy(SubSeq(v, 1, Len(v) - 1))
             x == v[Len(v)]
             k == Cardinality({j \in 1 .. Len(rest) : total_cmp(rest[j], x) # "Greater"})
         IN VecInsert(rest, k, x)

\* nodes.iter().filter_map(|p| p.accuracy()).collect()
RECURSIVE FilterMapAccuracy(_)
FilterMapAccuracy(nodes) ==
    IF Len(nodes) = 0 THEN << >>
    ELSE LET a == accuracy(nodes[1])
         IN (IF IsSome(a) THEN << Unwrap(a) >> ELSE << >>)
            \o FilterMapAccuracy(Tail(nodes))

\* ---------------------------------------------------------------- Way<T>
\* struct Way { nodes, length, accuracies: OnceLock<Vector<Length>> }
Way_new == [nodes |-> << >>, length |-> 0, accuracies |-> None]

\* The sum computed by the loop of recompute_length over the first k nodes.
RECURSIVE SumDistances(_, _)
SumDistances(nodes, k) ==
    IF k < 2 THEN 0
    ELSE SumDistances(nodes, k - 1) + Distance(coords(nodes[k - 1]), coords(nodes[k]))

Way_recompute_length(w) == [w EXCEPT !.length = SumDistances(w.nodes, Len(w.nodes))]

\* A faulty adjustment that builds the cache when a node with an accuracy
\* arrives.
AdjustAccuracies_builds(w, pos) ==
    IF IsSome(accuracy(pos))
    THEN Some(InsertOrdBy(IF IsSome(w.accuracies) THEN Unwrap(w.accuracies)
                          ELSE SortBy(FilterMapAccuracy(w.nodes)),
                          Unwrap(accuracy(pos))))
    ELSE w.accuracies

\* The cache adjustment shared by append and insert: only if the cache is
\* initialised and the node reports an accuracy.
AdjustAccuracies(w, pos) ==
    IF IsSome(w.accuracies) /\ IsSome(accuracy(pos))
    THEN Some(InsertOrdBy(Unwrap(w.accuracies), Unwrap(accuracy(pos))))
    ELSE w.accuracies

\* A faulty append that forgets to adjust the length.
Way_append_keeps_length(w, pos) ==
    [nodes |-> Append(w.nodes, pos),
     length |-> w.length,
     accuracies |-> AdjustAccuracies(w, pos)]

Way_append(w, pos) ==
    [nodes |-> Append(w.nodes, pos),
     length |-> IF Len(w.nodes) > 0
                THEN w.length + Distance(coords(w.nodes[Len(w.nodes)]), coords(pos))
                ELSE w.length,
     accuracies |-> AdjustAccuracies(w, pos)]

Way_insert(w, i, pos) ==
    Way_recompute_length([w EXCEPT !.accuracies = AdjustAccuracies(w, pos),
                                   !.nodes = VecInsert(w.nodes, i, pos)])

\* The lookup of the old accuracy in Way::update: the closure passed to
\* binary_search_by answers old_accuracy.total_cmp(other).
SearchOldAccuracy(accs, old_accuracy) ==
    BinarySearchBy([k \in 1 .. Len(accs) |-> total_cmp(old_accuracy, accs[k])])

\* Way::update reaches panic!("The accuracy for an existing node must appear
\* in self.accuracies.")
Way_update_panics(w, i) ==
    /\ IsSome(w.accuracies)
    /\ IsSome(accuracy(w.nodes[i + 1]))
    /\ ~SearchOldAccuracy(Unwrap(w.accuracies), Unwrap(accuracy(w.nodes[i + 1]))).ok

\* Way::update when it does not panic.
Way_update(w, i, new_pos) ==
    LET removed == IF IsSome(accuracy(w.nodes[i + 1]))
                   THEN VecRemove(Unwrap(w.accuracies),
                                  SearchOldAccuracy(Unwrap(w.accuracies),
                                                    Unwrap(accuracy(w.nodes[i + 1]))).idx)
                   ELSE Unwrap(w.accuracies)
        accs == IF ~IsSome(w.accuracies) THEN None
                ELSE IF IsSome(accuracy(new_pos))
                     THEN Some(InsertOrdBy(removed, Unwrap(accuracy(new_pos))))
                     ELSE Some(removed)
    IN Way_recompute_length([w EXCEPT !.accuracies = accs, !.nodes[i + 1] = new_pos])

Way_compute_accuracies(w) == SortBy(FilterMapAccuracy(w.nodes))

\* A faulty read that keeps only the nodes that report an accuracy.
Way_accuracies_drops_nodes(w) ==
    [w EXCEPT !.accuracies = IF IsSome(w.accuracies) THEN w.accuracies
                             ELSE Some(SortBy(FilterMapAccuracy(w.nodes))),
              !.nodes = SelectSeq(w.nodes, LAMBDA x : IsSome(accuracy(x)))]

\* Way::accuracies: self.accuracies.get_or_init(|| self.compute_accuracies());
\* the way after the call (the call returns the content of the cache).
Way_accuracies(w) ==
    IF IsSome(w.accuracies) THEN w
    ELSE [w EXCEPT !.accuracies = Some(Way_compute_accuracies(w))]

\* A faulty median that takes the upper middle element of an even count.
Way_median_accuracy_upper(w) ==
    LET after == Way_accuracies(w)
        accuracies == Unwrap(after.accuracies)
    IN [way |-> after,
        median |-> IF Len(accuracies) > 0
                   THEN Some(2 * accuracies[Len(accuracies) \div 2 + 1])
                   ELSE None]

\* Way::median_accuracy: the way after the call (self.accuracies() fills the
\* cache) and the value returned.  The mean of two lengths need not be a
\* whole number of units, so the value is counted in half units: 2 * a for
\* the element a, a + b for (a + b) / 2.0.
Way_median_accuracy(w) ==
    LET after == Way_accuracies(w)
        accuracies == Unwrap(after.accuracies)
    IN [way |-> after,
        median |-> IF Len(accuracies) > 0
                   THEN IF Len(accuracies) % 2 = 1
                        THEN Some(2 * accuracies[Len(accuracies) \div 2 + 1])
                        ELSE LET idx == Len(accuracies) \div 2
                             IN Some(accuracies[idx + 1] + accuracies[idx])
                   ELSE None]

\* ----------------------------------------------------------- RecordedWay
RecordedWay_new == [way |-> Way_new]

\* nodes.binary_search_by_key(&t, RecordedPos::timestamp)
BinarySearchByKey(nodes, t) ==
    BinarySearchBy([k \in 1 .. Len(nodes) |-> total_cmp(nodes[k].timestamp, t)])

\* A faulty branch test that also appends a sample as old as the last node.
AddBranch_append_equal(r, pos) ==
    IF Len(r.way.nodes) = 0 \/ r.way.nodes[Len(r.way.nodes)].timestamp <= pos.timestamp
    THEN [branch |-> "append", i |-> Len(r.way.nodes)]
    ELSE LET found == BinarySearchByKey(r.way.nodes, pos.timestamp)
         IN [branch |-> IF found.ok THEN "update" ELSE "insert", i |-> found.idx]

\* Which branch RecordedWay::add takes, and the index it works on: append if
\* the sample is later than the last node, else update(i) for Ok(i) and
\* insert(i) for Err(i) of the binary search.
AddBranch(r, pos) ==
    IF Len(r.way.nodes) = 0 \/ r.way.nodes[Len(r.way.nodes)].timestamp < pos.timestamp
    THEN [branch |-> "append", i |-> Len(r.way.nodes)]
    ELSE LET found == BinarySearchByKey(r.way.nodes, pos.timestamp)
         IN [branch |-> IF found.ok THEN "update" ELSE "insert", i |-> found.idx]

RecordedWay_add_panics(r, pos) ==
    LET b == AddBranch(r, pos)
    IN b.branch = "update" /\ Way_update_panics(r.way, b.i)

\* A faulty add that inserts an out-of-order sample one place too late.
RecordedWay_add_off_by_one(r, pos) ==
    LET b == AddBranch(r, pos)
        node == PosWithTimestamp_from(pos)
    IN CASE b.branch = "append" -> [way |-> Way_append(r.way, node)]
         [] b.branch = "insert" -> [way |-> Way_insert(r.way, b.i + 1, node)]
         [] OTHER -> [way |-> Way_update(r.way, b.i, node)]

\* RecordedWay::add when it does not panic.
RecordedWay_add(r, pos) ==
    LET b == AddBranch(r, pos)
        node == PosWithTimestamp_from(pos)
    IN CASE b.branch = "append" -> [way |-> Way_append(r.way, node)]
         [] b.branch = "insert" -> [way |-> Way_insert(r.way, b.i, node)]
         [] OTHER -> [way |-> Way_update(r.way, b.i, node)]

\* A faulty get_since that leaves out the node of the timestamp itself.
RecordedWay_get_since_exclusive(r, timestamp) ==
    LET found == BinarySearchByKey(r.way.nodes, timestamp)
        i == IF found.ok THEN found.idx + 1 ELSE found.idx
    IN SubSeq(r.way.nodes, i + 1, Len(r.way.nodes))

\* RecordedWay::get_since(timestamp): &self.way.nodes()[i..] with i the index
\* of the binary search, found or not.
RecordedWay_get_since(r, timestamp) ==
    LET i == BinarySearchByKey(r.way.nodes, timestamp).idx
    IN SubSeq(r.way.nodes, i + 1, Len(r.way.nodes))

\* ------------------------------------------------------------------ Line
\* Vec3: three components, counted in fifths of the unit so that unit
\* vectors off the axes ((0, 3/5, 4/5), ..) are integer triples.  A product
\* of two components counts in 1/25, of three in 1/125.
UNIT_X == << 5, 0, 0 >>
UNIT_Y == << 0, 5, 0 >>
UNIT_Z == << 0, 0, 5 >>
dot_prod(a, b) == a[1] * b[1] + a[2] * b[2] + a[3] * b[3]
cross_prod(a, b) ==
    << a[2] * b[3] - a[3] * b[2], a[3] * b[1] - a[1] * b[3], a[1] * b[2] - a[2] * b[1] >>
\* f64::sqrt, rounded down to the grid.
Sqrt(x) == CHOOSE r \in 0 .. x : r * r <= x /\ x < (r + 1) * (r + 1)
\* Vec3::norm
norm(v) == Sqrt(dot_prod(v, v))
\* The unit vectors of the grid.
UnitVec3 == {v \in [1 .. 3 -> {-5, -4, -3, 0, 3, 4, 5}] : dot_prod(v, v) = 25}

\* Angles: step k of the grid is 0, 36.87.., 53.13.., 90, 126.87.., 143.13..
\* and 180 degrees for k = 0 .. 6, and the opposite angle for -k; these are
\* the angles whose cosine and sine are whole fifths.
GridAngles == -6 .. 6
QuarterAngles == {-6, -3, 0, 3, 6}
Cos5(k) ==
    LET a == IF k < 0 THEN -k ELSE k
    IN CASE a = 0 -> 5 [] a = 1 -> 4 [] a = 2 -> 3 [] a = 3 -> 0
         [] a = 4 -> -3 [] a = 5 -> -4 [] a = 6 -> -5
Sin5(k) ==
    LET a == IF k < 0 THEN -k ELSE k
        v == CASE a = 0 -> 0 [] a = 1 -> 3 [] a = 2 -> 4 [] a = 3 -> 5
               [] a = 4 -> 4 [] a = 5 -> 3 [] a = 6 -> 0
    IN IF k < 0 THEN -v ELSE v
\* LatLong::new(lat, long).to_nvector(), for a latitude or a longitude that is
\* a multiple of the quarter turn (the products are then whole fifths).
LatLong_to_nvector(lat, long) ==
    << (Cos5(lat) * Cos5(long)) \div 5, (Cos5(lat) * Sin5(long)) \div 5, Sin5(lat) >>

\* MinorArc::new(start, end): the normal is the unit vector along start x end.
\* For coincident and antipodal endpoints the product vanishes and the
\* normal is whatever unit vector orthogonal to the endpoints the rounding of
\* the coordinates singles out: every one of them is possible.
MinorArc_new(start, end) ==
    LET c == cross_prod(start, end)
    IN IF c # << 0, 0, 0 >>
       THEN {[start |-> start, end |-> end,
              normal |-> << c[1] \div 5, c[2] \div 5, c[3] \div 5 >>]}
       ELSE {[start |-> start, end |-> end, normal |-> n] :
                n \in {v \in UnitVec3 : dot_prod(v, start) = 0}}
\* Line::new(start, end)
Line_new(lat_1, long_1, lat_2, long_2) ==
    MinorArc_new(LatLong_to_nvector(lat_1, long_1), LatLong_to_nvector(lat_2, long_2))

\* numbers::eq_zero: zero within the tolerance; the grid has no value that
\* close to zero but zero.
eq_zero(x) == x = 0

\* A faulty extrema that only looks at the endpoints.
Line_extrema_endpoints(l, direction) ==
    LET start_height == dot_prod(direction, l.start)
        end_height == dot_prod(direction, l.end)
    IN IF start_height < end_height
       THEN [min |-> start_height, max |-> end_height]
       ELSE [min |-> end_height, max |-> start_height]

\* Line::extrema(direction): (min, max), counted in 1/25.
Line_extrema(l, direction) ==
    LET n == l.normal
        m == cross_prod(n, direction)
        ms == dot_prod(m, l.start)
        me == dot_prod(m, l.end)
        start_height == dot_prod(direction, l.start)
        end_height == dot_prod(direction, l.end)
        min_p == IF start_height < end_height THEN start_height ELSE end_height
        max_p == IF start_height < end_height THEN end_height ELSE start_height
    IN IF ms * me >= 0 \/ eq_zero(ms) \/ eq_zero(me)
       THEN [min |-> min_p, max |-> max_p]
       ELSE IF ms < 0
       THEN [min |-> min_p, max |-> norm(cross_prod(direction, n))]
       ELSE [min |-> -norm(cross_prod(direction, n)), max |-> max_p]

\* ------------------------------------------------------------------ state
VARIABLES
    way,        \* a Way<Position> driven through its public operations
    rec,        \* a RecordedWay driven through add
    panicked,   \* a panic! was reached; the program has stopped
    app_version,            \* which of the two versions of geo_app runs
    curr_pos,               \* Model::curr_pos
    saved_positions,        \* Model::saved_positions, the RTree, as a bag
    saved_positions_names,  \* Model::saved_positions_names
    all_positions,          \* Model::all_positions
    recorded_ways,          \* Model::recorded_ways
    msg,                    \* Model::msg
    pending,                \* key-value requests the shell has not answered
    written,                \* the bytes of the latest Set request of every key
    view_n_saved_positions, \* Model::view_n_saved_positions
    view_saved_positions,   \* Model::view_saved_positions of geo_app.rs
    view_n_recorded_ways,   \* Model::view_n_recorded_ways
    view_recorded_ways,     \* Model::view_recorded_ways of geo_app.rs
    line,       \* a Line (MinorArc): start, end and normal
    extrema,    \* the direction and the result of the last Line::extrema
    places,     \* a query coordinate c and two saved coordinates a and b
    chords,     \* distance_2 of a and of b to the point of c
    curr_time,  \* Model::curr_time
    time_requests, \* how many Now and NotifyAfter requests the shell has not answered
    watch_id,   \* Geolocation::watch_id of crux_geolocation
    geo_sent,   \* the GeoRequests crux_geolocation has sent to the shell
    geo_tasks,  \* the tasks crux_geolocation has spawned that have not run yet
    geo_watch,  \* the GeoWatch of the web shell
    watchers,   \* the browser's running position watchers, with the retry count each captured
    timers      \* the browser's pending retry timeouts

way_vars == << way, rec >>
view_vars == << view_n_saved_positions, view_saved_positions >>
line_vars == << line, extrema >>
\* The state next to the ways and the application model.
chord_vars == << places, chords >>
ways_view_vars == << view_n_recorded_ways, view_recorded_ways >>
time_vars == << curr_time, time_requests >>
cap_vars == << watch_id, geo_sent, geo_tasks >>
shell_vars == << geo_watch, watchers, timers >>
lib_vars == << line_vars, chord_vars, time_vars, cap_vars, shell_vars >>
ext_vars == << lib_vars, ways_view_vars >>
app_vars == << app_version, curr_pos, saved_positions, saved_positions_names,
               all_positions, recorded_ways, msg, pending, written, view_vars >>
vars == << way, rec, panicked, app_version, curr_pos, saved_positions,
           saved_positions_names, all_positions, recorded_ways, msg, pending, written,
           view_n_saved_positions, view_saved_positions, line, extrema,
           places, chords, view_n_recorded_ways, view_recorded_ways, curr_time,
           time_requests,
           watch_id, geo_sent, geo_tasks, geo_watch, watchers, timers >>

\* ------------------------------ Way<Position>: append, insert, update, reads
\* The state next to the ways and the application model, before it is used.
InitLineVars ==
    /\ line = None
    /\ extrema = None
InitChordVars ==
    /\ places = None
    /\ chords = None
InitWaysViewVars ==
    /\ view_n_recorded_ways = 0
    /\ view_recorded_ways = << >>
NoTimeRequests == [now |-> 0, notify_after |-> 0]
InitTimeVars ==
    /\ curr_time = None
    /\ time_requests = NoTimeRequests
\* Geolocation::new
InitCapVars ==
    /\ watch_id = None
    /\ geo_sent = << >>
    /\ geo_tasks = << >>
\* create_geo_watch
InitShellVars ==
    /\ geo_watch = [tag |-> "Idle"]
    /\ watchers = {}
    /\ timers = {}
InitOuter == InitTimeVars /\ InitCapVars /\ InitShellVars
InitExt == InitLineVars /\ InitChordVars /\ InitWaysViewVars /\ InitOuter

InitWay ==
    /\ way = Way_new
    /\ rec = RecordedWay_new
    /\ panicked = FALSE
    /\ app_version = "mod.rs"
    /\ curr_pos = None
    /\ saved_positions = EmptyBag
    /\ saved_positions_names = << >>
    /\ all_positions = None
    /\ recorded_ways = << >>
    /\ msg = << "" >>
    /\ pending = {}
    /\ written = None
    /\ view_n_saved_positions = 0
    /\ view_saved_positions = << >>
    /\ InitExt

WayAppend(pos) ==
    /\ ~panicked
    /\ Len(way.nodes) < MaxNodes
    /\ way' = Way_append(way, pos)
    /\ UNCHANGED << rec, panicked, app_vars, ext_vars >>

WayInsert(i, pos) ==
    /\ ~panicked
    /\ Len(way.nodes) < MaxNodes
    /\ i <= Len(way.nodes)
    /\ way' = Way_insert(way, i, pos)
    /\ UNCHANGED << rec, panicked, app_vars, ext_vars >>

WayUpdate(i, pos) ==
    /\ ~panicked
    /\ i < Len(way.nodes)
    /\ IF Way_update_panics(way, i)
       THEN /\ panicked' = TRUE
            /\ UNCHANGED way
       ELSE /\ way' = Way_update(way, i, pos)
            /\ UNCHANGED panicked
    /\ UNCHANGED << rec, app_vars, ext_vars >>

WayReadAccuracies ==
    /\ ~panicked
    /\ way' = Way_accuracies(way)
    /\ UNCHANGED << rec, panicked, app_vars, ext_vars >>

\* way.median_accuracy()
WayMedianAccuracy ==
    /\ ~panicked
    /\ way' = Way_median_accuracy(way).way
    /\ UNCHANGED << rec, panicked, app_vars, ext_vars >>

NextWay ==
    \/ \E pos \in Position : WayAppend(pos)
    \/ \E i \in 0 .. MaxNodes, pos \in Position : WayInsert(i, pos)
    \/ \E i \in 0 .. MaxNodes, pos \in Position : WayUpdate(i, pos)
    \/ WayReadAccuracies
    \/ WayMedianAccuracy

SpecWay == InitWay /\ [][NextWay]_vars

\* ------------------------------------------------- RecordedWay: add, reads
RecAdd(pos) ==
    /\ ~panicked
    /\ IF RecordedWay_add_panics(rec, pos)
       THEN /\ panicked' = TRUE
            /\ UNCHANGED rec
       ELSE /\ rec' = RecordedWay_add(rec, pos)
            /\ UNCHANGED panicked
    /\ UNCHANGED << way, app_vars, ext_vars >>

\* rec.way().accuracies()
RecReadAccuracies ==
    /\ ~panicked
    /\ rec' = [way |-> Way_accuracies(rec.way)]
    /\ UNCHANGED << way, panicked, app_vars, ext_vars >>

NextRec ==
    \/ \E pos \in GeoInfo : RecAdd(pos)
    \/ RecReadAccuracies

SpecRec == InitWay /\ [][NextRec]_vars

\* --------------------------------------------- RecordedWay: add, get_since
\* The timestamps asked for: those of the samples, one before and one after.
QueryTimestamps == 0 .. MaxTime + 1

\* rec.get_since(timestamp) takes &self: the caller gets a slice of the nodes.
RecGetSince(timestamp) ==
    /\ ~panicked
    /\ Len(RecordedWay_get_since(rec, timestamp)) <= Len(rec.way.nodes)
    /\ UNCHANGED vars

NextSince ==
    \/ \E pos \in GeoInfo : RecAdd(pos)
    \/ \E timestamp \in QueryTimestamps : RecGetSince(timestamp)

SpecSince == InitWay /\ [][NextSince]_vars

\* ====================================================== the application
\* Names of saved positions (CompactString), as numbers.
Names == 1 .. MaxNames
\* enum GeoError
GeoErrors == {"PermissionDenied", "PositionUnavaillable", "Timeout"}
\* The position samples the shell delivers to the application.
AppGeoInfo ==
    {[timestamp |-> t, coords |-> t % (MaxCoord + 1), accuracy |-> None] : t \in 1 .. MaxAppTime}
\* GeoResult<GeoInfo>
GeoOk(g) == [tag |-> "Ok", val |-> g]
GeoErr(e) == [tag |-> "Err", val |-> e]
GeoResults == {GeoOk(g) : g \in AppGeoInfo} \cup {GeoErr(e) : e \in GeoErrors}

SAVED_POSITIONS_KEY == "saved_positions"
RECORDED_WAYS_KEY == "recorded_ways"

\* SavedPos::new(name, &geo)
SavedPos_new(name, geo) ==
    [name |-> name,
     pos |-> [coords |-> coords(geo), accuracy |-> accuracy(geo)],
     timestamp |-> geo.timestamp]

\* RTree::insert and RTree::remove (removes one element equal to pos, if any).
RTree_insert(t, pos) == t (+) SetToBag({pos})
RTree_remove(t, pos) == IF BagIn(pos, t) THEN t (-) SetToBag({pos}) ELSE t
\* HashMap::insert and HashMap::remove
HashMap_insert(m, k, v) == [x \in DOMAIN m \cup {k} |-> IF x = k THEN v ELSE m[x]]
HashMap_remove(m, k) == [x \in DOMAIN m \ {k} |-> m[x]]

\* RTree::iter: every element once, in an order the tree does not promise.
RTree_iter(t) ==
    LET elems == BagToSet(t)
        k == BagCardinality(t)
    IN {q \in [1 .. k -> elems] :
            \A p \in elems : Cardinality({i \in 1 .. k : q[i] = p}) = CopiesIn(p, t)}
\* HashMap::iter: every key once, in an order the map does not promise.
HashMap_iter(m) ==
    LET k == Cardinality(DOMAIN m)
    IN {q \in [1 .. k -> DOMAIN m] : \A i, j \in 1 .. k : q[i] = q[j] => i = j}

\* ---- bincode: a value is written as the sequence of its fields; one number
\* of the model stands for the bytes of one length, tag, string or float.
\* Option<T>: a tag, and the value after the tag 1
Ser_Option(o) == IF IsSome(o) THEN << 1, Unwrap(o) >> ELSE << 0 >>
\* struct Position
Ser_Position(p) == << p.coords >> \o Ser_Option(p.accuracy)
\* struct SavedPos { name, pos, timestamp }
Ser_SavedPos(s) == << s.name >> \o Ser_Position(s.pos) \o << s.timestamp >>
\* struct PosWithTimestamp { pos, timestamp }
Ser_PosWithTimestamp(n) == Ser_Position(n.pos) \o << n.timestamp >>
\* The elements of a sequence, one after the other.
Ser_Each(q, Ser_T(_)) ==
    LET bytes_of[i \in 0 .. Len(q)] ==
            IF i = 0 THEN << >> ELSE bytes_of[i - 1] \o Ser_T(q[i])
    IN bytes_of[Len(q)]
\* A faulty writer that writes the accuracy cache of a way as well.
Ser_Way_with_cache(w) ==
    << Len(w.nodes) >> \o Ser_Each(w.nodes, Ser_PosWithTimestamp) \o << w.length >>
        \o (IF IsSome(w.accuracies) THEN Unwrap(w.accuracies) ELSE << >>)
\* struct Way { nodes, length, #[serde(skip)] accuracies }
Ser_Way(w) ==
    << Len(w.nodes) >> \o Ser_Each(w.nodes, Ser_PosWithTimestamp) \o << w.length >>
\* struct RecordedWay { way }
Ser_RecordedWay(r) == Ser_Way(r.way)
\* RTree<SavedPos>: the children of the root, which are leaves, and the size
Ser_RTree(q) == << Len(q) >> \o Ser_Each(q, Ser_SavedPos) \o << Len(q) >>
\* HashMap<K, V>: the number of entries, and every key with its value
Ser_HashMap(m, q, Ser_V(_)) ==
    LET bytes_of[i \in 0 .. Len(q)] ==
            IF i = 0 THEN << >> ELSE bytes_of[i - 1] \o << q[i] >> \o Ser_V(m[q[i]])
    IN bytes_of[Len(q)]

\* bincode::serialize(&(saved_positions, &saved_positions_names)): the bytes
\* the iteration orders allow.
Serialize_saved_positions(rtree, names) ==
    {Ser_RTree(t) \o << Len(q) >> \o Ser_HashMap(names, q, Ser_SavedPos) :
        t \in RTree_iter(rtree), q \in HashMap_iter(names)}
\* bincode::serialize(recorded_ways)
Serialize_recorded_ways(ways) ==
    {<< Len(q) >> \o Ser_HashMap(ways, q, Ser_RecordedWay) : q \in HashMap_iter(ways)}

\* The result of reading a value: the value and the bytes after it, or an
\* error (the bytes ended, or a tag is not one the type has).
De_Ok(val, rest) == [ok |-> TRUE, val |-> val, rest |-> rest]
De_Err == [ok |-> FALSE]
\* One length, tag, string or float.
De_Number(bytes) == IF Len(bytes) = 0 THEN De_Err ELSE De_Ok(Head(bytes), Tail(bytes))
\* The value read after a value: the error of the first, or what K reads.
De_Then(r, K(_)) == IF ~r.ok THEN De_Err ELSE K(r)
De_Option(bytes) ==
    De_Then(De_Number(bytes), LAMBDA tag :
        IF tag.val = 0 THEN De_Ok(None, tag.rest)
        ELSE IF tag.val = 1
        THEN De_Then(De_Number(tag.rest), LAMBDA v : De_Ok(Some(v.val), v.rest))
        ELSE De_Err)
De_Position(bytes) ==
    De_Then(De_Number(bytes), LAMBDA c :
    De_Then(De_Option(c.rest), LAMBDA a :
        De_Ok([coords |-> c.val, accuracy |-> a.val], a.rest)))
De_SavedPos(bytes) ==
    De_Then(De_Number(bytes), LAMBDA name :
    De_Then(De_Position(name.rest), LAMBDA pos :
    De_Then(De_Number(pos.rest), LAMBDA t :
        De_Ok([name |-> name.val, pos |-> pos.val, timestamp |-> t.val], t.rest))))
De_PosWithTimestamp(bytes) ==
    De_Then(De_Position(bytes), LAMBDA pos :
    De_Then(De_Number(pos.rest), LAMBDA t :
        De_Ok([pos |-> pos.val, timestamp |-> t.val], t.rest)))
\* n elements, one after the other.
De_Each(bytes, n, De_T(_)) ==
    LET read[i \in 0 .. n] ==
            IF i = 0 THEN De_Ok(<< >>, bytes)
            ELSE De_Then(read[i - 1], LAMBDA before :
                 De_Then(De_T(before.rest), LAMBDA h :
                     De_Ok(Append(before.val, h.val), h.rest)))
    IN read[n]
\* A Vec<T>: its length and its elements.
De_Vec(bytes, De_T(_)) ==
    De_Then(De_Number(bytes), LAMBDA n : De_Each(n.rest, n.val, De_T))
\* The accuracies field is skipped: it gets its default, the empty OnceLock.
De_Way(bytes) ==
    De_Then(De_Vec(bytes, De_PosWithTimestamp), LAMBDA nodes :
    De_Then(De_Number(nodes.rest), LAMBDA length :
        De_Ok([nodes |-> nodes.val, length |-> length.val, accuracies |-> None],
              length.rest)))
De_RecordedWay(bytes) ==
    De_Then(De_Way(bytes), LAMBDA w : De_Ok([way |-> w.val], w.rest))
\* The bag of the elements of q.
BagOfSeq(q) ==
    [p \in {q[i] : i \in DOMAIN q} |-> Cardinality({i \in DOMAIN q : q[i] = p})]
De_RTree(bytes) ==
    De_Then(De_Vec(bytes, De_SavedPos), LAMBDA children :
    De_Then(De_Number(children.rest), LAMBDA size :
        De_Ok(BagOfSeq(children.val), size.rest)))
\* One key with its value.
De_Entry(bytes, De_V(_)) ==
    De_Then(De_Number(bytes), LAMBDA k :
    De_Then(De_V(k.rest), LAMBDA v :
        De_Ok([key |-> k.val, value |-> v.val], v.rest)))
De_SavedPosEntry(bytes) == De_Entry(bytes, De_SavedPos)
De_RecordedWayEntry(bytes) == De_Entry(bytes, De_RecordedWay)
\* The map that holds the entries of q, inserted one after the other.
RECURSIVE HashMap_from(_)
HashMap_from(q) ==
    IF Len(q) = 0 THEN << >>
    ELSE LET m == HashMap_from(SubSeq(q, 1, Len(q) - 1))
             e == q[Len(q)]
         IN [x \in DOMAIN m \cup {e.key} |-> IF x = e.key THEN e.value ELSE m[x]]

\* bincode::deserialize::<(RTree<SavedPos>, HashMap<_, SavedPos>)>(bytes);
\* bytes after the value are not looked at.
Deserialize_saved_positions(bytes) ==
    De_Then(De_RTree(bytes), LAMBDA rtree :
    De_Then(De_Vec(rtree.rest, De_SavedPosEntry), LAMBDA names :
        De_Ok([rtree |-> rtree.val, names |-> HashMap_from(names.val)], names.rest)))
\* bincode::deserialize::<HashMap<_, RecordedWay>>(bytes)
Deserialize_recorded_ways(bytes) ==
    De_Then(De_Vec(bytes, De_RecordedWayEntry), LAMBDA ways :
        De_Ok(HashMap_from(ways.val), ways.rest))
\* Bytes that bincode::deserialize rejects: one entry is announced, none follows.
Garbage == << 1 >>
\* bincode::deserialize(bytes.as_slice()) in the arm of set_data for key
Deserialize(bytes, key) ==
    IF key = SAVED_POSITIONS_KEY
    THEN Deserialize_saved_positions(bytes)
    ELSE Deserialize_recorded_ways(bytes)

\* The messages shown to the user.
MsgAlreadyExists(name) == << "Error: There is already a position named", name >>
MsgNotKnown == << "Error: The current position is not known." >>
MsgRemoved(name) == << "has been removed.", name >>
MsgNotExist(name) == << "Error: Position does not exist.", name >>
MsgDecodeError(key) == << "Browser Error: Error while decoding", key >>
MsgRetrieveError(key) == << "Internal Error: When retrieving", key >>
MsgSerializeError(key) == << "Internal Error: Failed to serialize", key >>
MsgNameInUse(name) == << "Error: The name is already in use.", name >>
MsgNoPositions == << "Error: No positions recorded." >>
MsgWayNotExist(name) == << "Error: Way does not exist.", name >>

\* Requests to the key-value capability that the shell has not answered yet.
\* The bytes of a Set request leave the core with the request; the answer
\* the core waits for does not depend on them.
GetRequest(key) == [op |-> "get", key |-> key]
SetRequest(key) == [op |-> "set", key |-> key]

\* save_saved_positions / save_recorded_ways: the request they issue.
save_saved_positions == SetRequest(SAVED_POSITIONS_KEY)
save_recorded_ways == SetRequest(RECORDED_WAYS_KEY)

\* Result<Option<Vec<u8>>, KeyValueError>
KvErr == [tag |-> "Err"]
KvOk(bytes) == [tag |-> "Ok", val |-> bytes]

\* The registries a session can have written to the store: every name maps to
\* a position saved under that name.
StoredRegistries ==
    UNION {{[n \in D |-> SavedPos_new(n, f[n])] : f \in [D -> AppGeoInfo]} : D \in SUBSET Names}
\* The bytes the shell can answer a Get of key with.
\* (One of the byte strings of every registry: what set_data decodes does not
\* depend on the order the entries were written in.)
StoredSavedPositions ==
    {CHOOSE bytes \in Serialize_saved_positions(SetToBag({m[n] : n \in DOMAIN m}), m) : TRUE :
        m \in StoredRegistries}
StoredBytes(key) ==
    {Garbage} \cup
    (IF key = SAVED_POSITIONS_KEY
     THEN StoredSavedPositions
     ELSE Serialize_recorded_ways(<< >>))
KeyValueResults_saved_positions ==
    {KvErr, KvOk(None)} \cup {KvOk(Some(b)) : b \in StoredBytes(SAVED_POSITIONS_KEY)}
KeyValueResults_recorded_ways ==
    {KvErr, KvOk(None)} \cup {KvOk(Some(b)) : b \in StoredBytes(RECORDED_WAYS_KEY)}
KeyValueResults(key) ==
    IF key = SAVED_POSITIONS_KEY
    THEN KeyValueResults_saved_positions
    ELSE KeyValueResults_recorded_ways
\* Deserialize(bytes, key), computed once for the bytes of StoredBytes.
DeserializedStored ==
    [key \in {SAVED_POSITIONS_KEY, RECORDED_WAYS_KEY} |->
        [bytes \in StoredBytes(key) |-> Deserialize(bytes, key)]]
Deserialized(bytes, key) ==
    IF bytes \in DOMAIN DeserializedStored[key]
    THEN DeserializedStored[key][bytes]
    ELSE Deserialize(bytes, key)

\* The bytes of a Set request reach the shell with the request.  written
\* holds, for every key, the bytes of the latest request, in the
\* specifications that follow them (it is None in the others).
NothingWritten == [key \in {SAVED_POSITIONS_KEY, RECORDED_WAYS_KEY} |-> None]
WriteSet(key, bytes_set) ==
    IF IsSome(written)
    THEN {Some([Unwrap(written) EXCEPT ![key] = Some(bytes)]) : bytes \in bytes_set}
    ELSE {None}
\* KeyValue::set(SAVED_POSITIONS_KEY, bincode::serialize(..)) with the
\* registry the handler leaves
WriteSavedPositions ==
    written' \in WriteSet(SAVED_POSITIONS_KEY,
                          Serialize_saved_positions(saved_positions', saved_positions_names'))
\* KeyValue::set(RECORDED_WAYS_KEY, bincode::serialize(recorded_ways))
WriteRecordedWays ==
    written' \in WriteSet(RECORDED_WAYS_KEY, Serialize_recorded_ways(recorded_ways'))

\* ------------------------------------------ the saved positions to view
\* LatLong::to_nvector: the unit normal of a coordinate.  A coordinate c lies
\* c quarter turns from the reference point along the meridian.
to_nvector(c) ==
    CASE c % 4 = 0 -> << 1, 0, 0 >>
      [] c % 4 = 1 -> << 0, 0, 1 >>
      [] c % 4 = 2 -> << -1, 0, 0 >>
      [] c % 4 = 3 -> << 0, 0, -1 >>
\* rtree_point(pos)
rtree_point(c) == to_nvector(c)
\* A faulty distance that leaves out the third component.
SquaredChord_flat(me, point) ==
    LET x == me[1] - point[1]
        y == me[2] - point[2]
    IN x * x + y * y

\* <SavedPos as PointDistance>::distance_2, from the point of self on.
SquaredChord(me, point) ==
    LET x == me[1] - point[1]
        y == me[2] - point[2]
        z == me[3] - point[3]
    IN x * x + y * y + z * z
\* <SavedPos as PointDistance>::distance_2
distance_2(p, point) == SquaredChord(rtree_point(p.pos.coords), point)

\* RTree::nearest_neighbor_iter(point): every element once, nearest first by
\* distance_2; the order of equally distant elements is not promised.
RTree_nearest_neighbor_iter(t, point) ==
    {q \in RTree_iter(t) :
        \A i, j \in DOMAIN q : i < j => distance_2(q[i], point) <= distance_2(q[j], point)}
\* Iterator::take(n).collect()
Take(q, n) == SubSeq(q, 1, IF n < Len(q) THEN n ELSE Len(q))

\* ViewSavedPos::new(saved_pos, curr_pos, deleateable)
ViewSavedPos_new(saved_pos, curr, deleateable) ==
    [name |-> saved_pos.name,
     summary |-> IF IsSome(curr)
                 THEN << saved_pos.name, Distance(Unwrap(curr), saved_pos.pos.coords) >>
                 ELSE << saved_pos.name >>,
     properties |-> << saved_pos.pos.coords, saved_pos.pos.accuracy, saved_pos.timestamp >>,
     deleateable |-> deleateable]

\* A faulty selection that never looks at the current coordinate.
view_saved_positions_fn_unordered(t, n, curr) ==
    {[i \in DOMAIN Take(q, n) |-> ViewSavedPos_new(q[i], curr, TRUE)] : q \in RTree_iter(t)}

\* view_saved_positions_fn(saved_positions, n, curr_pos) of geo_app/mod.rs:
\* the results the iteration orders allow.
view_saved_positions_fn(t, n, curr) ==
    {[i \in DOMAIN Take(q, n) |-> ViewSavedPos_new(q[i], curr, TRUE)] :
        q \in (IF IsSome(curr)
               THEN RTree_nearest_neighbor_iter(t, rtree_point(Unwrap(curr)))
               ELSE RTree_iter(t))}

\* GeoApp::view_saved_positions of geo_app.rs: the values it can store in
\* Model::view_saved_positions.
GeoApp_view_saved_positions(t, n, cp) ==
    {Take(q, n) :
        q \in (IF IsSome(cp) /\ Unwrap(cp).tag = "Ok"
               THEN RTree_nearest_neighbor_iter(t, rtree_point(Unwrap(cp).val.coords))
               ELSE RTree_iter(t))}
\* The handlers of geo_app.rs call it after they changed the registry; in
\* geo_app/mod.rs the list is derived for the view model and not stored.
UpdateViewSavedPositions(t) ==
    IF app_version = "geo_app.rs"
    THEN view_saved_positions' \in
            GeoApp_view_saved_positions(t, view_n_saved_positions, curr_pos)
    ELSE UNCHANGED view_saved_positions

\* names.sort()
SortNames(q) ==
    CHOOSE r \in [1 .. Len(q) -> {q[i] : i \in DOMAIN q}] :
        /\ \A x \in {q[i] : i \in DOMAIN q} :
              Cardinality({i \in DOMAIN r : r[i] = x}) = Cardinality({i \in DOMAIN q : q[i] = x})
        /\ \A i, j \in DOMAIN r : i < j => r[i] <= r[j]
\* GeoApp::view_recorded_ways of geo_app.rs: the values it can store in
\* Model::view_recorded_ways.
GeoApp_view_recorded_ways(ways, n) == {SortNames(Take(q, n)) : q \in HashMap_iter(ways)}
\* The handlers of geo_app.rs call it after they changed the recorded ways; in
\* geo_app/mod.rs the list is derived for the view model and not stored.
UpdateViewRecordedWays(ways) ==
    IF app_version = "geo_app.rs"
    THEN view_recorded_ways' \in GeoApp_view_recorded_ways(ways, view_n_recorded_ways)
    ELSE UNCHANGED view_recorded_ways
\* ViewRecordedWay::new(name, rec, deleateable)
ViewRecordedWay_new(name, r, deleateable) ==
    [name |-> name,
     summary |-> << name, r.way.length >>,
     properties |-> IF Len(r.way.nodes) > 0
                    THEN << Len(r.way.nodes), r.way.nodes[1].timestamp,
                            r.way.nodes[Len(r.way.nodes)].timestamp >>
                    ELSE << "The way doesn't have any nodes." >>,
     deleateable |-> deleateable]
\* usize::saturating_sub
saturating_sub(a, b) == IF a < b THEN 0 ELSE a - b
\* The recorded ways of the view model of geo_app/mod.rs (the derived signal
\* over recorded_ways and view_n_recorded_ways): the results the iteration
\* orders allow.
ViewModel_recorded_ways ==
    {[i \in DOMAIN Take(q, saturating_sub(view_n_recorded_ways, 1)) |->
            ViewRecordedWay_new(q[i], recorded_ways[q[i]], TRUE)] :
        q \in HashMap_iter(recorded_ways)}

\* The saved positions of the view model of geo_app/mod.rs (the memo over
\* saved_positions, view_n_saved_positions and the current coordinate).
ViewModel_saved_positions ==
    view_saved_positions_fn(saved_positions, view_n_saved_positions,
        IF IsSome(curr_pos) /\ Unwrap(curr_pos).tag = "Ok"
        THEN Some(Unwrap(curr_pos).val.coords) ELSE None)

InitApp ==
    /\ way = Way_new
    /\ rec = RecordedWay_new
    /\ panicked = FALSE
    /\ app_version \in {"mod.rs", "geo_app.rs"}
    /\ curr_pos = None
    /\ saved_positions = EmptyBag
    /\ saved_positions_names = << >>
    /\ all_positions = None
    /\ recorded_ways = << >>
    /\ msg = << "" >>
    /\ pending = {}
    /\ written = None
    /\ view_n_saved_positions = 0
    /\ view_saved_positions = << >>
    /\ InitExt

\* Event::GeolocationUpdate (the same in both versions): what the core does.
GeolocationUpdate_core(geo_result) ==
    /\ ~panicked
    /\ curr_pos' = Some(geo_result)
    /\ IF geo_result.tag = "Ok"
       THEN LET r == IF IsSome(all_positions) THEN Unwrap(all_positions)
                     ELSE RecordedWay_new
            IN IF RecordedWay_add_panics(r, geo_result.val)
               THEN panicked' = TRUE /\ UNCHANGED all_positions
               ELSE /\ all_positions' = Some(RecordedWay_add(r, geo_result.val))
                    /\ UNCHANGED panicked
       ELSE UNCHANGED << all_positions, panicked >>
    /\ UNCHANGED << way_vars, line_vars, chord_vars, time_vars, cap_vars, ways_view_vars,
                    app_version, saved_positions, saved_positions_names,
                    recorded_ways, msg, pending, written, view_vars >>

\* A faulty GeolocationUpdate that drops the active way on an error.
GeolocationUpdate_resets(geo_result) ==
    /\ ~panicked
    /\ curr_pos' = Some(geo_result)
    /\ IF geo_result.tag = "Ok"
       THEN LET r == IF IsSome(all_positions) THEN Unwrap(all_positions)
                     ELSE RecordedWay_new
            IN IF RecordedWay_add_panics(r, geo_result.val)
               THEN panicked' = TRUE /\ UNCHANGED all_positions
               ELSE /\ all_positions' = Some(RecordedWay_add(r, geo_result.val))
                    /\ UNCHANGED panicked
       ELSE all_positions' = None /\ UNCHANGED panicked
    /\ UNCHANGED << way_vars, ext_vars, app_version, saved_positions, saved_positions_names,
                    recorded_ways, msg, pending, written, view_vars >>

\* A faulty GeolocationUpdate whose saved ways share the storage of the active
\* way: a saved way equal to the active way grows with it.
GeolocationUpdate_shared(geo_result) ==
    /\ ~panicked
    /\ curr_pos' = Some(geo_result)
    /\ IF geo_result.tag = "Ok"
       THEN LET r == IF IsSome(all_positions) THEN Unwrap(all_positions)
                     ELSE RecordedWay_new
            IN IF RecordedWay_add_panics(r, geo_result.val)
               THEN panicked' = TRUE /\ UNCHANGED << all_positions, recorded_ways >>
               ELSE /\ all_positions' = Some(RecordedWay_add(r, geo_result.val))
                    /\ recorded_ways' =
                           [n \in DOMAIN recorded_ways |->
                               IF recorded_ways[n] = r
                               THEN RecordedWay_add(r, geo_result.val)
                               ELSE recorded_ways[n]]
                    /\ UNCHANGED panicked
       ELSE UNCHANGED << all_positions, panicked, recorded_ways >>
    /\ UNCHANGED << way_vars, ext_vars, app_version, saved_positions, saved_positions_names,
                    msg, pending, written, view_vars >>

\* Event::GeolocationUpdate, with the shell left as it is.
GeolocationUpdate(geo_result) ==
    /\ GeolocationUpdate_core(geo_result)
    /\ UNCHANGED shell_vars

\* A faulty LoadPersistantData that asks for the saved positions under a
\* misspelt key.
LoadPersistantData_other_key ==
    /\ ~panicked
    /\ pending' = pending \cup {GetRequest("saved_position"), GetRequest(RECORDED_WAYS_KEY)}
    /\ UNCHANGED << way_vars, ext_vars, panicked, app_version, curr_pos, saved_positions,
                    saved_positions_names, all_positions, recorded_ways, msg, written,
                    view_vars >>

\* Event::LoadPersistantData
LoadPersistantData ==
    /\ ~panicked
    /\ pending' = pending \cup {GetRequest(SAVED_POSITIONS_KEY), GetRequest(RECORDED_WAYS_KEY)}
    /\ UNCHANGED << way_vars, ext_vars, panicked, app_version, curr_pos, saved_positions,
                    saved_positions_names, all_positions, recorded_ways, msg, written,
                    view_vars >>

\* A faulty SaveCurrPos that reports an unknown position as a used name.
SaveCurrPos_wrong_report(name) ==
    /\ ~panicked
    /\ app_version = "mod.rs"
    /\ IF name \in DOMAIN saved_positions_names
       THEN /\ msg' = MsgAlreadyExists(name)
            /\ UNCHANGED << saved_positions, saved_positions_names, pending, written >>
       ELSE IF IsSome(curr_pos) /\ Unwrap(curr_pos).tag = "Ok"
       THEN LET pos == SavedPos_new(name, Unwrap(curr_pos).val)
            IN /\ saved_positions' = RTree_insert(saved_positions, pos)
               /\ saved_positions_names' = HashMap_insert(saved_positions_names, name, pos)
               /\ pending' = pending \cup {save_saved_positions}
               /\ WriteSavedPositions
               /\ UNCHANGED msg
       ELSE /\ msg' = MsgAlreadyExists(name)
            /\ UNCHANGED << saved_positions, saved_positions_names, pending, written >>
    /\ UNCHANGED << way_vars, ext_vars, panicked, app_version, curr_pos, all_positions,
                    recorded_ways, view_vars >>

\* A faulty SaveCurrPos that overwrites an entry of the same name.
SaveCurrPos_overwrite(name) ==
    /\ ~panicked
    /\ app_version = "mod.rs"
    /\ IF IsSome(curr_pos) /\ Unwrap(curr_pos).tag = "Ok"
       THEN LET pos == SavedPos_new(name, Unwrap(curr_pos).val)
            IN /\ saved_positions' = RTree_insert(saved_positions, pos)
               /\ saved_positions_names' = HashMap_insert(saved_positions_names, name, pos)
               /\ pending' = pending \cup {save_saved_positions}
               /\ WriteSavedPositions
               /\ UNCHANGED msg
       ELSE /\ msg' = MsgNotKnown
            /\ UNCHANGED << saved_positions, saved_positions_names, pending, written >>
    /\ UNCHANGED << way_vars, ext_vars, panicked, app_version, curr_pos, all_positions,
                    recorded_ways, view_vars >>

\* Event::SaveCurrPos in geo_app/mod.rs: the name is checked first.  The
\* changed saved_positions signal makes GeoApp::update issue the write.
SaveCurrPos(name) ==
    /\ ~panicked
    /\ app_version = "mod.rs"
    /\ IF name \in DOMAIN saved_positions_names
       THEN /\ msg' = MsgAlreadyExists(name)
            /\ UNCHANGED << saved_positions, saved_positions_names, pending, written >>
       ELSE IF IsSome(curr_pos) /\ Unwrap(curr_pos).tag = "Ok"
       THEN LET pos == SavedPos_new(name, Unwrap(curr_pos).val)
            IN /\ saved_positions' = RTree_insert(saved_positions, pos)
               /\ saved_positions_names' = HashMap_insert(saved_positions_names, name, pos)
               /\ pending' = pending \cup {save_saved_positions}
               /\ WriteSavedPositions
               /\ UNCHANGED msg
       ELSE /\ msg' = MsgNotKnown
            /\ UNCHANGED << saved_positions, saved_positions_names, pending, written >>
    /\ UNCHANGED << way_vars, ext_vars, panicked, app_version, curr_pos, all_positions,
                    recorded_ways, view_vars >>

\* A faulty SaveCurrPos that inserts into the index but not into the name map.
SaveCurrPos_index_only(name) ==
    /\ ~panicked
    /\ app_version = "geo_app.rs"
    /\ IF IsSome(curr_pos) /\ Unwrap(curr_pos).tag = "Ok"
       THEN IF name \in DOMAIN saved_positions_names
            THEN /\ msg' = MsgAlreadyExists(name)
                 /\ UNCHANGED << saved_positions, saved_positions_names, pending, written,
                                 view_saved_positions >>
            ELSE LET pos == SavedPos_new(name, Unwrap(curr_pos).val)
                 IN /\ saved_positions' = RTree_insert(saved_positions, pos)
                    /\ saved_positions_names' = saved_positions_names
                    /\ UpdateViewSavedPositions(saved_positions')
                    /\ pending' = pending \cup {save_saved_positions}
                    /\ WriteSavedPositions
                    /\ UNCHANGED msg
       ELSE /\ msg' = MsgNotKnown
            /\ UNCHANGED << saved_positions, saved_positions_names, pending, written,
                                 view_saved_positions >>
    /\ UNCHANGED << way_vars, ext_vars, panicked, app_version, curr_pos, all_positions,
                    recorded_ways, view_n_saved_positions >>

\* Event::SaveCurrPos in geo_app.rs: the current position is checked first.
SaveCurrPos_geo_app_rs(name) ==
    /\ ~panicked
    /\ app_version = "geo_app.rs"
    /\ IF IsSome(curr_pos) /\ Unwrap(curr_pos).tag = "Ok"
       THEN IF name \in DOMAIN saved_positions_names
            THEN /\ msg' = MsgAlreadyExists(name)
                 /\ UNCHANGED << saved_positions, saved_positions_names, pending, written,
                                 view_saved_positions >>
            ELSE LET pos == SavedPos_new(name, Unwrap(curr_pos).val)
                 IN /\ saved_positions' = RTree_insert(saved_positions, pos)
                    /\ saved_positions_names' =
                            HashMap_insert(saved_positions_names, name, pos)
                    /\ UpdateViewSavedPositions(saved_positions')
                    /\ pending' = pending \cup {save_saved_positions}
                    /\ WriteSavedPositions
                    /\ UNCHANGED msg
       ELSE /\ msg' = MsgNotKnown
            /\ UNCHANGED << saved_positions, saved_positions_names, pending, written,
                                 view_saved_positions >>
    /\ UNCHANGED << way_vars, ext_vars, panicked, app_version, curr_pos, all_positions,
                    recorded_ways, view_n_saved_positions >>

\* A faulty DelSavedPos that does not select the positions to view again.
DelSavedPos_stale_view(name) ==
    /\ ~panicked
    /\ IF name \in DOMAIN saved_positions_names
       THEN /\ saved_positions_names' = HashMap_remove(saved_positions_names, name)
            /\ saved_positions' = RTree_remove(saved_positions, saved_positions_names[name])
            /\ UNCHANGED view_saved_positions
            /\ pending' = pending \cup {save_saved_positions}
            /\ WriteSavedPositions
            /\ msg' = MsgRemoved(name)
       ELSE /\ msg' = MsgNotExist(name)
            /\ UNCHANGED << saved_positions, saved_positions_names, pending, written,
                            view_saved_positions >>
    /\ UNCHANGED << way_vars, ext_vars, panicked, app_version, curr_pos, all_positions,
                    recorded_ways, view_n_saved_positions >>

\* A faulty DelSavedPos that removes the entry from the name map only.
DelSavedPos_names_only(name) ==
    /\ ~panicked
    /\ IF name \in DOMAIN saved_positions_names
       THEN /\ saved_positions_names' = HashMap_remove(saved_positions_names, name)
            /\ saved_positions' = saved_positions
            /\ UpdateViewSavedPositions(saved_positions')
            /\ pending' = pending \cup {save_saved_positions}
            /\ WriteSavedPositions
            /\ msg' = MsgRemoved(name)
       ELSE /\ msg' = MsgNotExist(name)
            /\ UNCHANGED << saved_positions, saved_positions_names, pending, written,
                            view_saved_positions >>
    /\ UNCHANGED << way_vars, ext_vars, panicked, app_version, curr_pos, all_positions,
                    recorded_ways, view_n_saved_positions >>

\* A faulty DelSavedPos that clears the place of the deleted position in the
\* index: every saved position with its coordinates goes.
DelSavedPos_by_place(name) ==
    /\ ~panicked
    /\ IF name \in DOMAIN saved_positions_names
       THEN /\ saved_positions_names' = HashMap_remove(saved_positions_names, name)
            /\ saved_positions' =
                  LET here == {p \in DOMAIN saved_positions :
                                  p.pos.coords # saved_positions_names[name].pos.coords}
                  IN [p \in here |-> saved_positions[p]]
            /\ UpdateViewSavedPositions(saved_positions')
            /\ pending' = pending \cup {save_saved_positions}
            /\ WriteSavedPositions
            /\ msg' = MsgRemoved(name)
       ELSE /\ msg' = MsgNotExist(name)
            /\ UNCHANGED << saved_positions, saved_positions_names, pending, written,
                            view_saved_positions >>
    /\ UNCHANGED << way_vars, ext_vars, panicked, app_version, curr_pos, all_positions,
                    recorded_ways, view_n_saved_positions >>

\* Event::DelSavedPos (both versions remove from the name map, then from the
\* index, and have the registry written).
DelSavedPos(name) ==
    /\ ~panicked
    /\ IF name \in DOMAIN saved_positions_names
       THEN /\ saved_positions_names' = HashMap_remove(saved_positions_names, name)
            /\ saved_positions' = RTree_remove(saved_positions, saved_positions_names[name])
            /\ UpdateViewSavedPositions(saved_positions')
            /\ pending' = pending \cup {save_saved_positions}
            /\ WriteSavedPositions
            /\ msg' = MsgRemoved(name)
       ELSE /\ msg' = MsgNotExist(name)
            /\ UNCHANGED << saved_positions, saved_positions_names, pending, written,
                            view_saved_positions >>
    /\ UNCHANGED << way_vars, ext_vars, panicked, app_version, curr_pos, all_positions,
                    recorded_ways, view_n_saved_positions >>

\* A faulty SetData that empties the index when the bytes cannot be decoded.
SetData_half_replaced(res, key) ==
    /\ ~panicked
    /\ GetRequest(key) \in pending
    /\ LET rest == pending \ {GetRequest(key)}
           decoded == Deserialized(Unwrap(res.val), key)
       IN IF res.tag = "Err"
          THEN /\ msg' = MsgRetrieveError(key)
               /\ pending' = rest
               /\ UNCHANGED written
               /\ UNCHANGED << saved_positions, saved_positions_names, recorded_ways,
                               view_saved_positions,
                               view_recorded_ways >>
          ELSE IF ~IsSome(res.val)
          THEN /\ pending' = rest
               /\ UNCHANGED written
               /\ UNCHANGED << saved_positions, saved_positions_names, recorded_ways, msg,
                               view_saved_positions,
                               view_recorded_ways >>
          ELSE IF key \notin {SAVED_POSITIONS_KEY, RECORDED_WAYS_KEY}
          THEN /\ panicked' = TRUE
               /\ UNCHANGED << saved_positions, saved_positions_names, recorded_ways, msg,
                               pending, written, view_saved_positions,
                               view_recorded_ways >>
          ELSE IF ~decoded.ok
          THEN /\ msg' = MsgDecodeError(key)
               /\ pending' = rest
               /\ UNCHANGED written
               /\ saved_positions' = IF key = SAVED_POSITIONS_KEY THEN EmptyBag
                                     ELSE saved_positions
               /\ UNCHANGED << saved_positions_names, recorded_ways,
                               view_saved_positions,
                               view_recorded_ways >>
          ELSE IF key = SAVED_POSITIONS_KEY
          THEN /\ saved_positions' = decoded.val.rtree
               /\ saved_positions_names' = decoded.val.names
               /\ UpdateViewSavedPositions(saved_positions')
               /\ pending' = IF app_version = "mod.rs"
                             THEN rest \cup {save_saved_positions}
                             ELSE rest
               /\ IF app_version = "mod.rs" THEN WriteSavedPositions ELSE UNCHANGED written
               /\ UNCHANGED << recorded_ways, msg, view_recorded_ways >>
          ELSE /\ recorded_ways' = decoded.val
               /\ UpdateViewRecordedWays(recorded_ways')
               /\ pending' = IF app_version = "mod.rs"
                             THEN rest \cup {save_recorded_ways}
                             ELSE rest
               /\ IF app_version = "mod.rs" THEN WriteRecordedWays ELSE UNCHANGED written
               /\ UNCHANGED << saved_positions, saved_positions_names, msg,
                               view_saved_positions >>
    /\ (res.tag = "Ok" /\ IsSome(res.val)
            /\ key \notin {SAVED_POSITIONS_KEY, RECORDED_WAYS_KEY})
        \/ UNCHANGED panicked
    /\ UNCHANGED << way_vars, lib_vars, app_version, curr_pos, all_positions,
                    view_n_saved_positions, view_n_recorded_ways >>

\* A faulty SetData that takes the decoded recorded ways for the whole model
\* and empties the saved positions.
SetData_whole_model(res, key) ==
    /\ ~panicked
    /\ GetRequest(key) \in pending
    /\ LET rest == pending \ {GetRequest(key)}
           decoded == Deserialized(Unwrap(res.val), key)
       IN IF res.tag = "Err"
          THEN /\ msg' = MsgRetrieveError(key)
               /\ pending' = rest
               /\ UNCHANGED written
               /\ UNCHANGED << saved_positions, saved_positions_names, recorded_ways,
                               view_saved_positions,
                               view_recorded_ways >>
          ELSE IF ~IsSome(res.val)
          THEN /\ pending' = rest
               /\ UNCHANGED written
               /\ UNCHANGED << saved_positions, saved_positions_names, recorded_ways, msg,
                               view_saved_positions,
                               view_recorded_ways >>
          ELSE IF key \notin {SAVED_POSITIONS_KEY, RECORDED_WAYS_KEY}
          THEN /\ panicked' = TRUE
               /\ UNCHANGED << saved_positions, saved_positions_names, recorded_ways, msg,
                               pending, written, view_saved_positions,
                               view_recorded_ways >>
          ELSE IF ~decoded.ok
          THEN /\ msg' = MsgDecodeError(key)
               /\ pending' = rest
               /\ UNCHANGED written
               /\ UNCHANGED << saved_positions, saved_positions_names, recorded_ways,
                               view_saved_positions,
                               view_recorded_ways >>
          ELSE IF key = SAVED_POSITIONS_KEY
          THEN /\ saved_positions' = decoded.val.rtree
               /\ saved_positions_names' = decoded.val.names
               /\ UpdateViewSavedPositions(saved_positions')
               /\ pending' = IF app_version = "mod.rs"
                             THEN rest \cup {save_saved_positions}
                             ELSE rest
               /\ IF app_version = "mod.rs" THEN WriteSavedPositions ELSE UNCHANGED written
               /\ UNCHANGED << recorded_ways, msg, view_recorded_ways >>
          ELSE /\ recorded_ways' = decoded.val
               /\ UpdateViewRecordedWays(recorded_ways')
               /\ pending' = IF app_version = "mod.rs"
                             THEN rest \cup {save_recorded_ways}
                             ELSE rest
               /\ IF app_version = "mod.rs" THEN WriteRecordedWays ELSE UNCHANGED written
               /\ saved_positions' = EmptyBag
               /\ saved_positions_names' = << >>
               /\ UNCHANGED << msg, view_saved_positions >>
    /\ (res.tag = "Ok" /\ IsSome(res.val)
            /\ key \notin {SAVED_POSITIONS_KEY, RECORDED_WAYS_KEY})
        \/ UNCHANGED panicked
    /\ UNCHANGED << way_vars, lib_vars, app_version, curr_pos, all_positions,
                    view_n_saved_positions, view_n_recorded_ways >>

\* Event::SetData { res, key }, the answer to a Get request of
\* LoadPersistantData (set_data); bytes under another key are a panic.  In geo_app/mod.rs a structure that was set
\* signals its subscriber, and GeoApp::update has it written back.
SetData(res, key) ==
    /\ ~panicked
    /\ GetRequest(key) \in pending
    /\ LET rest == pending \ {GetRequest(key)}
           decoded == Deserialized(Unwrap(res.val), key)
       IN IF res.tag = "Err"
          THEN /\ msg' = MsgRetrieveError(key)
               /\ pending' = rest
               /\ UNCHANGED written
               /\ UNCHANGED << saved_positions, saved_positions_names, recorded_ways,
                               view_saved_positions,
                               view_recorded_ways >>
          ELSE IF ~IsSome(res.val)
          THEN /\ pending' = rest
               /\ UNCHANGED written
               /\ UNCHANGED << saved_positions, saved_positions_names, recorded_ways, msg,
                               view_saved_positions,
                               view_recorded_ways >>
          ELSE IF key \notin {SAVED_POSITIONS_KEY, RECORDED_WAYS_KEY}
          THEN /\ panicked' = TRUE
               /\ UNCHANGED << saved_positions, saved_positions_names, recorded_ways, msg,
                               pending, written, view_saved_positions,
                               view_recorded_ways >>
          ELSE IF ~decoded.ok
          THEN /\ msg' = MsgDecodeError(key)
               /\ pending' = rest
               /\ UNCHANGED written
               /\ UNCHANGED << saved_positions, saved_positions_names, recorded_ways,
                               view_saved_positions,
                               view_recorded_ways >>
          ELSE IF key = SAVED_POSITIONS_KEY
          THEN /\ saved_positions' = decoded.val.rtree
               /\ saved_positions_names' = decoded.val.names
               /\ UpdateViewSavedPositions(saved_positions')
               /\ pending' = IF app_version = "mod.rs"
                             THEN rest \cup {save_saved_positions}
                             ELSE rest
               /\ IF app_version = "mod.rs" THEN WriteSavedPositions ELSE UNCHANGED written
               /\ UNCHANGED << recorded_ways, msg, view_recorded_ways >>
          ELSE /\ recorded_ways' = decoded.val
               /\ UpdateViewRecordedWays(recorded_ways')
               /\ pending' = IF app_version = "mod.rs"
                             THEN rest \cup {save_recorded_ways}
                             ELSE rest
               /\ IF app_version = "mod.rs" THEN WriteRecordedWays ELSE UNCHANGED written
               /\ UNCHANGED << saved_positions, saved_positions_names, msg,
                               view_saved_positions >>
    /\ (res.tag = "Ok" /\ IsSome(res.val)
            /\ key \notin {SAVED_POSITIONS_KEY, RECORDED_WAYS_KEY})
        \/ UNCHANGED panicked
    /\ UNCHANGED << way_vars, lib_vars, app_version, curr_pos, all_positions,
                    view_n_saved_positions, view_n_recorded_ways >>

\* The answer to a Set request: Event::None if the shell stored the bytes,
\* Event::Msg with the error text if it did not.
SetAnswer(key, failed) ==
    /\ ~panicked
    /\ SetRequest(key) \in pending
    /\ pending' = pending \ {SetRequest(key)}
    /\ IF failed
       THEN msg' = MsgSerializeError(key)
       ELSE UNCHANGED msg
    /\ UNCHANGED << way_vars, ext_vars, panicked, app_version, curr_pos, saved_positions,
                    saved_positions_names, all_positions, recorded_ways, written,
                    view_vars >>

\* A faulty SaveAllPositions that replaces the way saved under a used name.
SaveAllPositions_overwrite(name) ==
    /\ ~panicked
    /\ IF IsSome(all_positions)
       THEN /\ recorded_ways' = HashMap_insert(recorded_ways, name, Unwrap(all_positions))
            /\ UpdateViewRecordedWays(recorded_ways')
            /\ pending' = pending \cup {save_recorded_ways}
            /\ WriteRecordedWays
            /\ UNCHANGED msg
       ELSE /\ msg' = MsgNoPositions
            /\ UNCHANGED << recorded_ways, pending, written, view_recorded_ways >>
    /\ UNCHANGED << way_vars, lib_vars, panicked, app_version, curr_pos, saved_positions,
                    saved_positions_names, all_positions, view_vars,
                    view_n_recorded_ways >>

\* Event::SaveAllPositions(name): the recorded positions are checked first,
\* then the name.  geo_app.rs selects the ways to view and issues the write;
\* in geo_app/mod.rs the changed recorded_ways signal makes GeoApp::update
\* issue the write.
SaveAllPositions(name) ==
    /\ ~panicked
    /\ IF IsSome(all_positions)
       THEN IF name \in DOMAIN recorded_ways
            THEN /\ msg' = MsgNameInUse(name)
                 /\ UNCHANGED << recorded_ways, pending, written, view_recorded_ways >>
            ELSE /\ recorded_ways' =
                        HashMap_insert(recorded_ways, name, Unwrap(all_positions))
                 /\ UpdateViewRecordedWays(recorded_ways')
                 /\ pending' = pending \cup {save_recorded_ways}
                 /\ WriteRecordedWays
                 /\ UNCHANGED msg
       ELSE /\ msg' = MsgNoPositions
            /\ UNCHANGED << recorded_ways, pending, written, view_recorded_ways >>
    /\ UNCHANGED << way_vars, lib_vars, panicked, app_version, curr_pos, saved_positions,
                    saved_positions_names, all_positions, view_vars,
                    view_n_recorded_ways >>

\* Event::DelRecordedWay(name)
DelRecordedWay(name) ==
    /\ ~panicked
    /\ IF name \in DOMAIN recorded_ways
       THEN /\ recorded_ways' = HashMap_remove(recorded_ways, name)
            /\ UpdateViewRecordedWays(recorded_ways')
            /\ pending' = pending \cup {save_recorded_ways}
            /\ WriteRecordedWays
            /\ msg' = MsgRemoved(name)
       ELSE /\ msg' = MsgWayNotExist(name)
            /\ UNCHANGED << recorded_ways, pending, written, view_recorded_ways >>
    /\ UNCHANGED << way_vars, lib_vars, panicked, app_version, curr_pos, saved_positions,
                    saved_positions_names, all_positions, view_vars,
                    view_n_recorded_ways >>

\* A faulty ViewNRecordedWays that stores n and keeps the list as it was.
ViewNRecordedWays_no_refresh(n) ==
    /\ ~panicked
    /\ view_n_recorded_ways' = n
    /\ UNCHANGED view_recorded_ways
    /\ UNCHANGED << way_vars, lib_vars, panicked, app_vars >>

\* Event::ViewNRecordedWays(n): geo_app.rs stores n and selects again,
\* geo_app/mod.rs sets the signal the view model is derived from.
ViewNRecordedWays(n) ==
    /\ ~panicked
    /\ view_n_recorded_ways' = n
    /\ IF app_version = "geo_app.rs"
       THEN view_recorded_ways' \in GeoApp_view_recorded_ways(recorded_ways, n)
       ELSE UNCHANGED view_recorded_ways
    /\ UNCHANGED << way_vars, lib_vars, panicked, app_vars >>

NextApp ==
    \/ \E r \in GeoResults : GeolocationUpdate(r)
    \/ LoadPersistantData
    \/ \E name \in Names : SaveCurrPos(name)
    \/ \E name \in Names : SaveCurrPos_geo_app_rs(name)
    \/ \E name \in Names : DelSavedPos(name)
    \/ \E key \in {SAVED_POSITIONS_KEY, RECORDED_WAYS_KEY} :
          \E res \in KeyValueResults(key) : SetData(res, key)
    \/ \E key \in {SAVED_POSITIONS_KEY, RECORDED_WAYS_KEY}, failed \in BOOLEAN :
          SetAnswer(key, failed)

SpecApp == InitApp /\ [][NextApp]_vars

\* ------------------------------------------- the application: tracking
\* The position results of a tracking session: samples of every timestamp
\* and coordinate, with or without an accuracy, and the acquisition errors.
TrackGeoInfo == [timestamp : Timestamps, coords : LatLongs, accuracy : {None, Some(1)}]
TrackResults == {GeoOk(g) : g \in TrackGeoInfo} \cup {GeoErr(e) : e \in GeoErrors}

NextTrack == \E r \in TrackResults : GeolocationUpdate(r)

SpecTrack == InitApp /\ [][NextTrack]_vars

\* -------------------------- the application: selecting saved positions
\* The registries and the position results a selection can meet.
ViewGeoInfo == [timestamp : {1}, coords : LatLongs, accuracy : {None}]
ViewRegistries ==
    UNION {{[n \in D |-> SavedPos_new(n, f[n])] : f \in [D -> ViewGeoInfo]} : D \in SUBSET Names}
ViewResults == {GeoOk(g) : g \in ViewGeoInfo} \cup {GeoErr(e) : e \in GeoErrors}

InitView ==
    /\ way = Way_new
    /\ rec = RecordedWay_new
    /\ panicked = FALSE
    /\ app_version \in {"mod.rs", "geo_app.rs"}
    /\ curr_pos \in {None} \cup {Some(r) : r \in ViewResults}
    /\ saved_positions_names \in ViewRegistries
    /\ saved_positions =
            SetToBag({saved_positions_names[n] : n \in DOMAIN saved_positions_names})
    /\ all_positions = None
    /\ recorded_ways = << >>
    /\ msg = << "" >>
    /\ pending = {}
    /\ written = None
    /\ view_n_saved_positions = 0
    /\ view_saved_positions = << >>
    /\ InitExt

\* Event::ViewNSavedPositions(n): geo_app.rs stores n and selects again,
\* geo_app/mod.rs sets the signal the view model is derived from.
ViewNSavedPositions(n) ==
    /\ ~panicked
    /\ view_n_saved_positions' = n
    /\ IF app_version = "geo_app.rs"
       THEN view_saved_positions' \in
                GeoApp_view_saved_positions(saved_positions, n, curr_pos)
       ELSE UNCHANGED view_saved_positions
    /\ UNCHANGED << way_vars, ext_vars, panicked, app_version, curr_pos, saved_positions,
                    saved_positions_names, all_positions, recorded_ways, msg, pending, written >>

NextView == \E n \in 0 .. MaxNames + 1 : ViewNSavedPositions(n)

SpecView == InitView /\ [][NextView]_vars

\* ------------------------------------------------- Line: new, extrema
\* The lines between the coordinates whose latitude and longitude are 0, a
\* quarter or a half turn, either way.
InitLine ==
    /\ way = Way_new
    /\ rec = RecordedWay_new
    /\ panicked = FALSE
    /\ app_version = "mod.rs"
    /\ curr_pos = None
    /\ saved_positions = EmptyBag
    /\ saved_positions_names = << >>
    /\ all_positions = None
    /\ recorded_ways = << >>
    /\ msg = << "" >>
    /\ pending = {}
    /\ written = None
    /\ view_n_saved_positions = 0
    /\ view_saved_positions = << >>
    /\ \E lat_1, long_1, lat_2, long_2 \in QuarterAngles :
            \E l \in Line_new(lat_1, long_1, lat_2, long_2) : line = Some(l)
    /\ extrema = None
    /\ InitChordVars
    /\ InitWaysViewVars
    /\ InitOuter

\* line.extrema(direction)
LineExtrema(direction) ==
    /\ IsSome(line)
    /\ extrema' = Some([direction |-> direction,
                        result |-> Line_extrema(Unwrap(line), direction)])
    /\ UNCHANGED << way_vars, panicked, app_vars, line, chord_vars, ways_view_vars,
                    time_vars, cap_vars, shell_vars >>

NextLine == \E direction \in {UNIT_X, UNIT_Y, UNIT_Z} : LineExtrema(direction)

SpecLine == InitLine /\ [][NextLine]_vars

\* ------------------------------- the distances the RTree orders positions by
\* Coordinates with a valid latitude whose unit normal lies on the grid.
GridLatLongs ==
    {[lat |-> 0, long |-> long] : long \in GridAngles}
        \cup {[lat |-> lat, long |-> long] : lat \in -3 .. 3, long \in QuarterAngles}

\* rtree_point of a position with the coordinates ll
rtree_point_LatLong(ll) == LatLong_to_nvector(ll.lat, ll.long)

\* atan2(sqrt(y2_1), x_1) < atan2(sqrt(y2_2), x_2), for angles in [0, pi]
AtanLess(y2_1, x_1, y2_2, x_2) ==
    LET rank(x) == IF x > 0 THEN 0 ELSE IF x = 0 THEN 1 ELSE 2
    IN \/ rank(x_1) < rank(x_2)
       \/ /\ rank(x_1) = 0
          /\ rank(x_2) = 0
          /\ y2_1 * x_2 * x_2 < y2_2 * x_1 * x_1
       \/ /\ rank(x_1) = 2
          /\ rank(x_2) = 2
          /\ y2_1 * x_2 * x_2 > y2_2 * x_1 * x_1

\* PLANET.distance(u, c) < PLANET.distance(v, c): the distance along the
\* surface is the radius times the angle atan2(|u x c|, u . c).
GeodesicNearer(u, v, c) ==
    LET n_u == cross_prod(u, c)
        n_v == cross_prod(v, c)
    IN AtanLess(dot_prod(n_u, n_u), dot_prod(u, c), dot_prod(n_v, n_v), dot_prod(v, c))

InitChord ==
    /\ way = Way_new
    /\ rec = RecordedWay_new
    /\ panicked = FALSE
    /\ app_version = "mod.rs"
    /\ curr_pos = None
    /\ saved_positions = EmptyBag
    /\ saved_positions_names = << >>
    /\ all_positions = None
    /\ recorded_ways = << >>
    /\ msg = << "" >>
    /\ pending = {}
    /\ written = None
    /\ view_n_saved_positions = 0
    /\ view_saved_positions = << >>
    /\ InitLineVars
    /\ \E c, a, b \in GridLatLongs : places = Some([c |-> c, a |-> a, b |-> b])
    /\ chords = None
    /\ InitWaysViewVars
    /\ InitOuter

\* a.distance_2(&rtree_point(c)) and b.distance_2(&rtree_point(c)), as the
\* nearest-neighbour iteration of the RTree evaluates them
NearestDistances ==
    /\ IsSome(places)
    /\ LET p == Unwrap(places)
           point == rtree_point_LatLong(p.c)
       IN chords' = Some([a |-> SquaredChord(rtree_point_LatLong(p.a), point),
                          b |-> SquaredChord(rtree_point_LatLong(p.b), point)])
    /\ UNCHANGED << way_vars, panicked, app_vars, line_vars, places, ways_view_vars,
                    time_vars, cap_vars, shell_vars >>

NextChord == NearestDistances

SpecChord == InitChord /\ [][NextChord]_vars

\* ---------------------------------- writing the structures and reading them
\* The recorded ways of a session: up to two samples each, added in the order
\* of their timestamps, and the accuracies of every way have been read.
StoreGeoInfo ==
    UNION {{[timestamp |-> t, coords |-> t % (MaxCoord + 1), accuracy |-> a] :
                a \in {None, Some(3 - t)}} : t \in 1 .. 2}
StoreSamples ==
    {<< >>} \cup {<< g >> : g \in StoreGeoInfo}
        \cup {<< g, h >> : g \in {x \in StoreGeoInfo : x.timestamp = 1},
                           h \in {x \in StoreGeoInfo : x.timestamp = 2}}
RECURSIVE RecordedWay_of(_)
RecordedWay_of(q) ==
    IF Len(q) = 0 THEN RecordedWay_new
    ELSE RecordedWay_add(RecordedWay_of(SubSeq(q, 1, Len(q) - 1)), q[Len(q)])
StoreWays == {[way |-> Way_accuracies(RecordedWay_of(q).way)] : q \in StoreSamples}
\* The registry of a session: every name, with and without an accuracy.
StoreRegistry ==
    [n \in Names |->
        SavedPos_new(n, [timestamp |-> n, coords |-> n % (MaxCoord + 1),
                         accuracy |-> IF n % 2 = 1 THEN Some(1) ELSE None])]

\* A core that holds saved positions or recorded ways, and a shell that has
\* stored nothing yet.
InitStore ==
    /\ way = Way_new
    /\ rec = RecordedWay_new
    /\ panicked = FALSE
    /\ app_version \in {"mod.rs", "geo_app.rs"}
    /\ curr_pos = None
    /\ \/ /\ saved_positions_names = StoreRegistry
          /\ recorded_ways = << >>
       \/ /\ saved_positions_names = << >>
          /\ recorded_ways \in [Names -> StoreWays]
    /\ saved_positions =
            SetToBag({saved_positions_names[n] : n \in DOMAIN saved_positions_names})
    /\ all_positions = None
    /\ msg = << "" >>
    /\ pending = {}
    /\ written = Some(NothingWritten)
    /\ view_n_saved_positions = 0
    /\ view_saved_positions = << >>
    /\ InitExt

\* save_saved_positions(&saved_positions, model)
SaveSavedPositions ==
    /\ ~panicked
    /\ UNCHANGED << saved_positions, saved_positions_names >>
    /\ pending' = pending \cup {save_saved_positions}
    /\ WriteSavedPositions
    /\ UNCHANGED << way_vars, ext_vars, panicked, app_version, curr_pos, all_positions,
                    recorded_ways, msg, view_vars >>

\* save_recorded_ways(&recorded_ways)
SaveRecordedWays ==
    /\ ~panicked
    /\ UNCHANGED recorded_ways
    /\ pending' = pending \cup {save_recorded_ways}
    /\ WriteRecordedWays
    /\ UNCHANGED << way_vars, ext_vars, panicked, app_version, curr_pos, saved_positions,
                    saved_positions_names, all_positions, msg, view_vars >>

\* The shell answers a Get request with the bytes it holds for the key.
StoreAnswer(key) == KvOk(Unwrap(written)[key])

NextStore ==
    \/ SaveSavedPositions
    \/ SaveRecordedWays
    \/ LoadPersistantData
    \/ \E key \in {SAVED_POSITIONS_KEY, RECORDED_WAYS_KEY} : SetData(StoreAnswer(key), key)

SpecStore == InitStore /\ [][NextStore]_vars

\* ------------------------------------------ the queries next to the mutators
\* A RecordedWay that is added to and queried, and a registry that is
\* selected from.  The samples have one coordinate per timestamp; the
\* registry is empty or holds every name.
QueryGeoInfo ==
    UNION {{[timestamp |-> t, coords |-> t % (MaxCoord + 1), accuracy |-> a] :
                a \in {None, Some((t % MaxAcc) + 1)}} : t \in Timestamps}
QueryRegistries ==
    {<< >>,
     [n \in Names |->
        SavedPos_new(n, [timestamp |-> 1, coords |-> n % (MaxCoord + 1), accuracy |-> None])]}

InitQuery ==
    /\ way = Way_new
    /\ rec = RecordedWay_new
    /\ panicked = FALSE
    /\ app_version \in {"mod.rs", "geo_app.rs"}
    /\ curr_pos \in {None, Some(GeoOk([timestamp |-> 1, coords |-> 0, accuracy |-> None]))}
    /\ saved_positions_names \in QueryRegistries
    /\ saved_positions =
            SetToBag({saved_positions_names[n] : n \in DOMAIN saved_positions_names})
    /\ all_positions = None
    /\ recorded_ways = << >>
    /\ msg = << "" >>
    /\ pending = {}
    /\ written = None
    /\ view_n_saved_positions = 0
    /\ view_saved_positions = << >>
    /\ InitExt

\* rec.way().median_accuracy()
RecMedianAccuracy ==
    /\ ~panicked
    /\ rec' = [way |-> Way_median_accuracy(rec.way).way]
    /\ UNCHANGED << way, panicked, app_vars, ext_vars >>

NextQuery ==
    \/ \E pos \in QueryGeoInfo : RecAdd(pos)
    \/ RecReadAccuracies
    \/ RecMedianAccuracy
    \/ \E timestamp \in QueryTimestamps : RecGetSince(timestamp)
    \/ \E n \in 0 .. MaxNames + 1 : ViewNSavedPositions(n)

SpecQuery == InitQuery /\ [][NextQuery]_vars

\* ------------------------ the application: every event the shell delivers
\* The request to the geolocation capability that the shell has not answered
\* for good.
WatchRequest == [op |-> "watch_position", key |-> "geolocation"]

\* The names, the times, the list lengths and the position results of a
\* session: two samples of one timestamp, so that the second replaces the
\* first in the active way, and an acquisition error.
CoreNames == {1}
CoreTimes == {1}
CoreLengths == {2}
CoreGeoInfo ==
    {[timestamp |-> 1, coords |-> 0, accuracy |-> Some(1)],
     [timestamp |-> 1, coords |-> 1, accuracy |-> Some(2)]}
CoreResults == {GeoOk(g) : g \in CoreGeoInfo} \cup {GeoErr("Timeout")}
\* What the shell's store answers a Get with: a failure, no value, bytes
\* that are no encoding, or the encoding of one saved position or one way.
CoreStored(key) ==
    IF key = RECORDED_WAYS_KEY
    THEN Serialize_recorded_ways(
            [n \in CoreNames |->
                RecordedWay_add(RecordedWay_new,
                                [timestamp |-> 1, coords |-> 0, accuracy |-> Some(1)])])
    ELSE LET m == [n \in CoreNames |->
                      SavedPos_new(n, [timestamp |-> 1, coords |-> 0, accuracy |-> Some(1)])]
         IN Serialize_saved_positions(SetToBag({m[n] : n \in DOMAIN m}), m)
CoreAnswers(key) ==
    {KvErr, KvOk(None), KvOk(Some(Garbage))} \cup {KvOk(Some(b)) : b \in CoreStored(key)}
\* The outcomes the shell answers a NotifyAfter request with (process_time
\* answers DurationElapsed only).
TimerOutcomes == {"Completed"}

InitCore ==
    /\ InitApp
    /\ app_version = "mod.rs"

\* Event::UpdateCurrTime, after `answered` requests of each kind were
\* answered: geo_app/mod.rs asks for the time (the timer follows the
\* answer), geo_app.rs asks for the time and starts the timer at once.
UpdateCurrTime(answered) ==
    /\ time_requests.now - answered.now < MaxTimers
    /\ time_requests.notify_after - answered.notify_after < MaxTimers
    /\ time_requests' =
          [now |-> time_requests.now - answered.now + 1,
           notify_after |-> time_requests.notify_after - answered.notify_after
                               + (IF app_version = "mod.rs" THEN 0 ELSE 1)]

\* Event::StartGeolocation: a watch is requested and Event::UpdateCurrTime
\* is sent (mod.rs) or handled at once (geo_app.rs).
StartGeolocation ==
    /\ ~panicked
    /\ pending' = pending \cup {WatchRequest}
    /\ UpdateCurrTime(NoTimeRequests)
    /\ UNCHANGED << way_vars, line_vars, chord_vars, curr_time, cap_vars, shell_vars,
                    ways_view_vars, panicked, app_version, curr_pos, saved_positions,
                    saved_positions_names, all_positions, recorded_ways, msg, written,
                    view_vars >>

\* Event::StopGeolocation: the shell is told to clear the watch, whose
\* request gets no answer any more.
StopGeolocation ==
    /\ ~panicked
    /\ pending' = pending \ {WatchRequest}
    /\ UNCHANGED << way_vars, ext_vars, panicked, app_version, curr_pos, saved_positions,
                    saved_positions_names, all_positions, recorded_ways, msg, written,
                    view_vars >>

\* An answer to the watch request: Event::GeolocationUpdate.
WatchAnswer(geo_result) ==
    /\ WatchRequest \in pending
    /\ GeolocationUpdate(geo_result)

\* Event::DownloadData: the data goes to the shell as a file; the model does
\* not change.
DownloadData ==
    /\ ~panicked
    /\ UNCHANGED vars

\* Event::SetCurrTime(time)
SetCurrTime(time) ==
    /\ ~panicked
    /\ curr_time' = Some(time)
    /\ UNCHANGED << way_vars, line_vars, chord_vars, time_requests, cap_vars, shell_vars,
                    ways_view_vars, panicked, app_vars >>

\* The answer to the Now request of Event::UpdateCurrTime: Event::SetCurrTime
\* is sent, and in geo_app/mod.rs the timer is requested.
NowAnswer(time) ==
    /\ ~panicked
    /\ time_requests.now > 0
    /\ curr_time' = Some(time)
    /\ IF app_version = "mod.rs"
       THEN /\ time_requests.notify_after < MaxTimers
            /\ time_requests' = [now |-> time_requests.now - 1,
                                 notify_after |-> time_requests.notify_after + 1]
       ELSE time_requests' = [time_requests EXCEPT !.now = @ - 1]
    /\ UNCHANGED << way_vars, line_vars, chord_vars, cap_vars, shell_vars, ways_view_vars,
                    panicked, app_vars >>

\* The answer to the NotifyAfter request: a completed timer sends
\* Event::UpdateCurrTime, a cleared one is unreachable!() in geo_app/mod.rs
\* (geo_app.rs sends Event::UpdateCurrTime whatever the outcome).
NotifyAfterAnswer(outcome) ==
    /\ ~panicked
    /\ time_requests.notify_after > 0
    /\ IF outcome = "Completed" \/ app_version = "geo_app.rs"
       THEN /\ UpdateCurrTime([now |-> 0, notify_after |-> 1])
            /\ UNCHANGED panicked
       ELSE panicked' = TRUE /\ UNCHANGED time_requests
    /\ UNCHANGED << way_vars, line_vars, chord_vars, curr_time, cap_vars, shell_vars,
                    ways_view_vars, app_vars >>

\* (Geolocation is started once in this session; SpecTime starts it again
\* and again.)
NextCore ==
    \/ time_requests = NoTimeRequests /\ StartGeolocation
    \/ StopGeolocation
    \/ \E r \in CoreResults : WatchAnswer(r)
    \/ LoadPersistantData
    \/ \E req \in pending :
          /\ req.op = "get"
          /\ \E res \in CoreAnswers(req.key) : SetData(res, req.key)
    \/ DownloadData
    \/ \E name \in CoreNames : SaveCurrPos(name)
    \/ \E name \in CoreNames : DelSavedPos(name)
    \/ \E n \in CoreLengths : ViewNSavedPositions(n)
    \/ \E name \in CoreNames : SaveAllPositions(name)
    \/ \E name \in CoreNames : DelRecordedWay(name)
    \/ \E n \in CoreLengths : ViewNRecordedWays(n)
    \/ \E key \in {SAVED_POSITIONS_KEY, RECORDED_WAYS_KEY}, failed \in BOOLEAN :
          SetAnswer(key, failed)
    \/ \E time \in CoreTimes : SetCurrTime(time)
    \/ \E time \in CoreTimes : NowAnswer(time)
    \/ \E outcome \in TimerOutcomes : NotifyAfterAnswer(outcome)

SpecCore == InitCore /\ [][NextCore]_vars

\* -------------------------------- the application: the current-time timer
\* Geolocation is started and stopped any number of times while the shell
\* answers the watch and the time requests.
NextTime ==
    \/ StartGeolocation
    \/ StopGeolocation
    \/ \E r \in CoreResults : WatchAnswer(r)
    \/ \E time \in CoreTimes : NowAnswer(time)
    \/ \E outcome \in TimerOutcomes : NotifyAfterAnswer(outcome)

SpecTime == InitApp /\ [][NextTime]_vars

\* ------------------- the application: the view list of geo_app.rs in use
InitViewList ==
    /\ InitApp
    /\ app_version = "geo_app.rs"

\* The position results of the session: a sample at either of two
\* coordinates, and an acquisition error.
ViewListGeoInfo == [timestamp : {1}, coords : {0, 1}, accuracy : {None}]
ViewListResults == {GeoOk(g) : g \in ViewListGeoInfo} \cup {GeoErr("Timeout")}

NextViewList ==
    \/ \E r \in ViewListResults : GeolocationUpdate(r)
    \/ \E name \in Names : SaveCurrPos_geo_app_rs(name)
    \/ \E name \in Names : DelSavedPos(name)
    \/ \E n \in 0 .. MaxNames : ViewNSavedPositions(n)
    \/ LoadPersistantData
    \/ \E res \in CoreAnswers(SAVED_POSITIONS_KEY) : SetData(res, SAVED_POSITIONS_KEY)
    \/ \E failed \in BOOLEAN : SetAnswer(SAVED_POSITIONS_KEY, failed)

SpecViewList == InitViewList /\ [][NextViewList]_vars

\* ----------------------- the application: what it has the shell write
\* The position results of the session: two samples and an error.
PersistGeoInfo == [timestamp : {1}, coords : {0, 1}, accuracy : {None}]
PersistResults == {GeoOk(g) : g \in PersistGeoInfo} \cup {GeoErr("Timeout")}

InitPersist ==
    /\ way = Way_new
    /\ rec = RecordedWay_new
    /\ panicked = FALSE
    /\ app_version \in {"mod.rs", "geo_app.rs"}
    /\ curr_pos = None
    /\ saved_positions = EmptyBag
    /\ saved_positions_names = << >>
    /\ all_positions = None
    /\ recorded_ways = << >>
    /\ msg = << "" >>
    /\ pending = {}
    /\ written = Some(NothingWritten)
    /\ view_n_saved_positions = 0
    /\ view_saved_positions = << >>
    /\ InitExt

NextPersist ==
    \/ \E r \in PersistResults : GeolocationUpdate(r)
    \/ \E name \in CoreNames : SaveCurrPos(name)
    \/ \E name \in CoreNames : SaveCurrPos_geo_app_rs(name)
    \/ \E name \in CoreNames : DelSavedPos(name)
    \/ \E name \in CoreNames : SaveAllPositions(name)
    \/ \E name \in CoreNames : DelRecordedWay(name)
    \/ LoadPersistantData
    \/ \E key \in {SAVED_POSITIONS_KEY, RECORDED_WAYS_KEY} :
          \E res \in CoreAnswers(key) : SetData(res, key)
    \/ \E key \in {SAVED_POSITIONS_KEY, RECORDED_WAYS_KEY}, failed \in BOOLEAN :
          SetAnswer(key, failed)

SpecPersist == InitPersist /\ [][NextPersist]_vars

\* ------------------------------ the application: the recorded ways
\* The ways a session can have saved, and the maps of them by name.
WaysRecorded == {RecordedWay_add(RecordedWay_new, g) : g \in ViewGeoInfo}
WaysMaps == UNION {[D -> WaysRecorded] : D \in SUBSET Names}

InitWays ==
    /\ way = Way_new
    /\ rec = RecordedWay_new
    /\ panicked = FALSE
    /\ app_version \in {"mod.rs", "geo_app.rs"}
    /\ curr_pos = None
    /\ saved_positions = EmptyBag
    /\ saved_positions_names = << >>
    /\ all_positions \in {None} \cup {Some(w) : w \in WaysRecorded}
    /\ recorded_ways \in WaysMaps
    /\ msg = << "" >>
    /\ pending = {}
    /\ written = None
    /\ view_n_saved_positions = 0
    /\ view_saved_positions = << >>
    /\ InitExt

NextWays ==
    \/ \E n \in 0 .. MaxNames + 1 : ViewNRecordedWays(n)
    \/ \E name \in Names : SaveAllPositions(name)
    \/ \E name \in Names : DelRecordedWay(name)
    \/ \E failed \in BOOLEAN : SetAnswer(RECORDED_WAYS_KEY, failed)

SpecWays == InitWays /\ [][NextWays]_vars

\* ------------------- the application: saving and deleting positions
\* Positions are saved and deleted while the position moves between two
\* places.
NextRegistry ==
    \/ \E r \in PersistResults : GeolocationUpdate(r)
    \/ \E name \in Names : SaveCurrPos(name)
    \/ \E name \in Names : SaveCurrPos_geo_app_rs(name)
    \/ \E name \in Names : DelSavedPos(name)

SpecRegistry == InitApp /\ [][NextRegistry]_vars

\* --------------------- the application: saving ways while recording
\* The position results of the session: samples of two timestamps.
SnapshotGeoInfo == [timestamp : 1 .. 2, coords : {0, 1}, accuracy : {None}]
SnapshotResults == {GeoOk(g) : g \in SnapshotGeoInfo} \cup {GeoErr("Timeout")}

NextSnapshot ==
    \/ \E r \in SnapshotResults : GeolocationUpdate(r)
    \/ \E name \in Names : SaveAllPositions(name)
    \/ \E name \in Names : DelRecordedWay(name)

SpecSnapshot == InitApp /\ [][NextSnapshot]_vars

\* ------------------------------------- crux_geolocation: the capability
\* enum GeoRequest
GetCurrentPosition == [op |-> "GetCurrentPosition"]
WatchPosition == [op |-> "WatchPosition"]
ClearWatch(id) == [op |-> "ClearWatch", id |-> id]

\* clear_watch_async: the requests sent after it, and the watch id it leaves.
clear_watch_async(sent) ==
    LET maybe_id == watch_id
    IN IF IsSome(maybe_id) THEN Append(sent, ClearWatch(Unwrap(maybe_id))) ELSE sent

\* get_position, watch_position, clear_watch: each spawns a task.
Geolocation_spawn(task) ==
    /\ Len(geo_tasks) < MaxTasks
    /\ geo_tasks' = Append(geo_tasks, task)
    /\ UNCHANGED << watch_id, geo_sent >>
    /\ UNCHANGED << way_vars, line_vars, chord_vars, time_vars, shell_vars, ways_view_vars,
                    panicked, app_vars >>

\* A spawned task runs: get_position_async, watch_position_async (which
\* clears the earlier watch first) or clear_watch_async.
Geolocation_run ==
    /\ geo_tasks # << >>
    /\ Len(geo_sent) < MaxSent
    /\ geo_tasks' = Tail(geo_tasks)
    /\ watch_id' = IF Head(geo_tasks) = "get_position" THEN watch_id ELSE None
    /\ geo_sent' =
          CASE Head(geo_tasks) = "get_position" -> Append(geo_sent, GetCurrentPosition)
            [] Head(geo_tasks) = "watch_position" ->
                    Append(clear_watch_async(geo_sent), WatchPosition)
            [] Head(geo_tasks) = "clear_watch" -> clear_watch_async(geo_sent)
    /\ UNCHANGED << way_vars, line_vars, chord_vars, time_vars, shell_vars, ways_view_vars,
                    panicked, app_vars >>

InitGeolocation ==
    /\ InitApp
    /\ app_version = "geo_app.rs"

NextGeolocation ==
    \/ \E task \in {"get_position", "watch_position", "clear_watch"} : Geolocation_spawn(task)
    \/ Geolocation_run

SpecGeolocation == InitGeolocation /\ [][NextGeolocation]_vars

\* ------------------------------------------------ web shell: retry_time
\* u64 arithmetic: a value is four digits of base 2^16, the lowest first.
\* An operation gives the wrapped value and whether it overflowed.
Digit == 65536
U64_from(k) == << k % Digit, k \div Digit, 0, 0 >>
\* x * k for a k below 2^15
U64_mul(x, k) ==
    LET carry[i \in 0 .. 4] == IF i = 0 THEN 0 ELSE (x[i] * k + carry[i - 1]) \div Digit
    IN [val |-> [i \in 1 .. 4 |-> (x[i] * k + carry[i - 1]) % Digit],
        overflow |-> carry[4] > 0]
\* 2u64.pow(e): the bit e of the value, and an overflow where there is no
\* such bit (the wrapped value is 0).
U64_pow2(e) ==
    [val |-> [i \in 1 .. 4 |-> IF e \div 16 = i - 1 THEN 2 ^ (e % 16) ELSE 0],
     overflow |-> e >= 64]
\* x - 1
U64_sub_one(x) ==
    LET borrow[i \in 0 .. 4] == IF i = 0 THEN TRUE ELSE borrow[i - 1] /\ x[i] = 0
    IN [val |-> [i \in 1 .. 4 |-> IF borrow[i - 1] THEN (x[i] + Digit - 1) % Digit ELSE x[i]],
        overflow |-> borrow[4]]
\* cmp::min(Duration::from_millis(x), Duration::from_secs(10)), in milliseconds
MinWithTenSeconds(x) ==
    IF x[4] = 0 /\ x[3] = 0 /\ x[2] = 0 /\ x[1] <= 10000 THEN x[1] ELSE 10000
\* What retry_time(n) evaluates to, given the powers, the product and the
\* difference: the duration of the wrapped values, and a panic where an
\* operation overflowed and the build checks overflows.
RetryOutcomes(product, difference, overflowed) ==
    {[panic |-> FALSE, ms |-> MinWithTenSeconds(difference.val)]}
        \cup (IF overflowed \/ product.overflow \/ difference.overflow
              THEN {[panic |-> TRUE, ms |-> 0]}
              ELSE {})
RetryProduct(power) ==
    RetryOutcomes(U64_mul(power.val, 250), U64_sub_one(U64_mul(power.val, 250).val),
                  power.overflow)
\* retry_time(n), for the n that fit u32
retry_time(n) ==
    IF n = 0 THEN {[panic |-> FALSE, ms |-> 0]} ELSE RetryProduct(U64_pow2(n))

\* ------------------------------------------------ web shell: GeoWatch
\* enum GeoWatch
Idle == [tag |-> "Idle"]
Alive(stop_fn) == [tag |-> "Alive", stop_fn |-> stop_fn]
Retry(n, handle) == [tag |-> "Retry", n |-> n, handle |-> handle]

\* The GeoWatch with the watchers and timeouts of the browser it refers to.
ShellState == [geo_watch |-> geo_watch, watchers |-> watchers, timers |-> timers]
WatcherIds(ws) == {w.id : w \in ws}
TimerIds(ts) == {t.id : t \in ts}

\* A faulty stop that leaves the state as it was.
GeoWatch_stop_keeps_state(s) ==
    [geo_watch |-> s.geo_watch,
     watchers |-> IF s.geo_watch.tag = "Alive"
                  THEN {w \in s.watchers : w.id # s.geo_watch.stop_fn}
                  ELSE s.watchers,
     timers |-> IF s.geo_watch.tag = "Retry"
                THEN {t \in s.timers : t.id # s.geo_watch.handle}
                ELSE s.timers]

\* GeoWatch::stop: stop_fn pauses the watcher of an Alive state, handle.clear
\* clears the timeout of a Retry state.
GeoWatch_stop(s) ==
    [geo_watch |-> Idle,
     watchers |-> IF s.geo_watch.tag = "Alive"
                  THEN {w \in s.watchers : w.id # s.geo_watch.stop_fn}
                  ELSE s.watchers,
     timers |-> IF s.geo_watch.tag = "Retry"
                THEN {t \in s.timers : t.id # s.geo_watch.handle}
                ELSE s.timers]

\* A faulty watch that starts every watcher with the retry count 0.
GeoWatch_watch_resets(s) ==
    LET stopped == GeoWatch_stop(s)
        id == CHOOSE i \in 1 .. Cardinality(stopped.watchers) + 1 :
                  i \notin WatcherIds(stopped.watchers)
    IN [geo_watch |-> Alive(id),
        watchers |-> stopped.watchers \cup {[id |-> id, n_retries |-> 0]},
        timers |-> stopped.timers]

\* GeoWatch::watch: the retry count is read, the watch is stopped, and a new
\* watcher is started whose effect keeps the retry count.
GeoWatch_watch(s) ==
    LET n_retries == IF s.geo_watch.tag = "Retry" THEN s.geo_watch.n ELSE 0
        stopped == GeoWatch_stop(s)
        id == CHOOSE i \in 1 .. Cardinality(stopped.watchers) + 1 :
                  i \notin WatcherIds(stopped.watchers)
    IN [geo_watch |-> Alive(id),
        watchers |-> stopped.watchers \cup {[id |-> id, n_retries |-> n_retries]},
        timers |-> stopped.timers]

SetShellState(s) ==
    /\ geo_watch' = s.geo_watch
    /\ watchers' = s.watchers
    /\ timers' = s.timers

\* process_geolocation: the core asks for a watch (Event::Watch) or for its
\* end (Event::Stop).
ProcessGeolocation(operation) ==
    /\ ~panicked
    /\ SetShellState(IF operation = "WatchPosition"
                     THEN GeoWatch_watch(ShellState)
                     ELSE GeoWatch_stop(ShellState))
    /\ UNCHANGED << way_vars, line_vars, chord_vars, time_vars, cap_vars, ways_view_vars,
                    panicked, app_vars >>

\* A retry timeout fires: Event::Watch is set again.
RetryTimeout(handle) ==
    /\ ~panicked
    /\ handle \in TimerIds(timers)
    /\ SetShellState(GeoWatch_watch(
           [ShellState EXCEPT !.timers = {t \in timers : t.id # handle}]))
    /\ UNCHANGED << way_vars, line_vars, chord_vars, time_vars, cap_vars, ways_view_vars,
                    panicked, app_vars >>

\* The effect of a watcher runs with an error of the browser: a retry is
\* scheduled after retry_time(n_retries), the state becomes Retry and the
\* core gets the error.  Where retry_time panics the effect ends there.
WatcherError(w, e) ==
    /\ ~panicked
    /\ w \in watchers
    /\ \E d \in retry_time(w.n_retries) :
          IF d.panic
          THEN /\ panicked' = TRUE
               /\ UNCHANGED << way_vars, line_vars, chord_vars, time_vars, cap_vars,
                               ways_view_vars, app_vars, geo_watch, timers >>
          ELSE /\ LET handle == CHOOSE h \in 1 .. Cardinality(timers) + 1 :
                                    h \notin TimerIds(timers)
                  IN /\ timers' = timers \cup {[id |-> handle, delay |-> d.ms]}
                     /\ geo_watch' = Retry(w.n_retries + 1, handle)
               /\ GeolocationUpdate_core(GeoErr(e))
    /\ UNCHANGED watchers

\* The effect of a watcher runs with a position of the browser: the core
\* gets it.
WatcherPosition(w, g) ==
    /\ w \in watchers
    /\ GeolocationUpdate_core(GeoOk(g))
    /\ UNCHANGED shell_vars

\* A watch can be started while fewer than MaxWatchers watchers would be
\* left next to it, an error can be reported to a watcher that has retried
\* less than MaxRetries times while fewer than MaxWatchers timeouts are
\* pending.
CanWatch == Cardinality(GeoWatch_stop(ShellState).watchers) < MaxWatchers
NextShell ==
    \/ \E operation \in {"WatchPosition", "ClearWatch"} :
          /\ operation = "WatchPosition" => CanWatch
          /\ ProcessGeolocation(operation)
    \/ \E handle \in TimerIds(timers) : CanWatch /\ RetryTimeout(handle)
    \/ \E w \in watchers :
          /\ w.n_retries < MaxRetries
          /\ Cardinality(timers) < MaxWatchers
          /\ WatcherError(w, "Timeout")
    \/ \E w \in watchers, g \in CoreGeoInfo : WatcherPosition(w, g)

SpecShell == InitCore /\ [][NextShell]_vars

\* ----------------------------- web shell: a watch that keeps failing
\* A watch is started, and started again while few watchers exist; the
\* browser reports positions and errors to the watcher of the state, and
\* every retry timeout fires.
NextRetry ==
    \/ Cardinality(watchers) < MaxWatchers /\ ProcessGeolocation("WatchPosition")
    \/ \E handle \in TimerIds(timers) : RetryTimeout(handle)
    \/ \E w \in watchers :
          /\ geo_watch = Alive(w.id)
          /\ w.n_retries < MaxRetryCount
          /\ WatcherError(w, "Timeout")
    \/ \E w \in watchers, g \in CoreGeoInfo :
          /\ geo_watch = Alive(w.id)
          /\ WatcherPosition(w, g)

SpecRetry == InitCore /\ [][NextRetry]_vars

\* ===================================================== claims on Way<T>
\* The sum of the geodesic distances between consecutive nodes, in order.
RECURSIVE GeodesicSum(_)
GeodesicSum(nodes) ==
    IF Len(nodes) < 2 THEN 0
    ELSE Distance(coords(nodes[1]), coords(nodes[2])) + GeodesicSum(Tail(nodes))

\* How many nodes report the accuracy a / how often a occurs in the vector v.
CountNodes(nodes, a) == Cardinality({k \in 1 .. Len(nodes) : accuracy(nodes[k]) = Some(a)})
CountIn(v, a) == Cardinality({k \in 1 .. Len(v) : v[k] = a})
NonDecreasing(v) == \A k \in 1 .. Len(v) - 1 : v[k] <= v[k + 1]

\* C1: in every state reached by append, insert and update from new(),
\* length() is the sum of the geodesic distances between consecutive nodes
\* (zero for fewer than two nodes).
C1_LengthIsGeodesicSum == way.length = GeodesicSum(way.nodes)

\* C1 witness: a way of three nodes that goes there and back, so that its
\* length is more than the distance between its ends.
C1_Witness ==
    /\ Len(way.nodes) = 3
    /\ way.length > Distance(coords(way.nodes[1]), coords(way.nodes[3]))

\* C2: whenever accuracies() is called, it returns the present accuracies of
\* the current nodes, each as often as it occurs, in non-decreasing order.
C2_AccuraciesSortedMultiset ==
    LET r == Unwrap(Way_accuracies(way).accuracies)
    IN /\ NonDecreasing(r)
       /\ \A a \in 1 .. MaxAcc : CountIn(r, a) = CountNodes(way.nodes, a)

\* C2 witness: the cache has been read; the nodes report two different
\* accuracies, the larger one first, and one node reports none.
C2_Witness ==
    /\ ~panicked
    /\ IsSome(way.accuracies)
    /\ Len(way.nodes) = 3
    /\ Len(Unwrap(way.accuracies)) = 2
    /\ IsSome(accuracy(way.nodes[1]))
    /\ IsSome(accuracy(way.nodes[3]))
    /\ Unwrap(accuracy(way.nodes[1])) > Unwrap(accuracy(way.nodes[3]))

\* C3: update(i, new) with i < len, called after accuracies() was read, finds
\* the old accuracy in the cache and completes without the internal-invariant
\* failure: no call of update ends in the panic.
C3_UpdateNeverPanics == ~panicked

\* ================================================ claims on RecordedWay
HasTimestamp(nodes, t) == \E k \in 1 .. Len(nodes) : nodes[k].timestamp = t
StrictlyIncreasing(nodes) ==
    \A k \in 1 .. Len(nodes) - 1 : nodes[k].timestamp < nodes[k + 1].timestamp

\* C4: the timestamps of nodes() are strictly increasing, whatever the order
\* in which samples arrive.
C4_TimestampsStrictlyIncreasing == StrictlyIncreasing(rec.way.nodes)

\* C4 witness: three samples of different timestamps have been added.
C4_Witness ==
    /\ ~panicked
    /\ Len(rec.way.nodes) = 3
    /\ rec.way.nodes[1].timestamp < rec.way.nodes[3].timestamp

\* C5: add of a sample whose timestamp equals that of an existing node leaves
\* the node count unchanged, replaces exactly that node by the new sample and
\* leaves every other node unchanged.
C5_AddDuplicateReplaces ==
    \A pos \in GeoInfo :
        HasTimestamp(rec.way.nodes, pos.timestamp)
        => /\ ~RecordedWay_add_panics(rec, pos)
           /\ LET r == RecordedWay_add(rec, pos)
              IN /\ Len(r.way.nodes) = Len(rec.way.nodes)
                 /\ \A k \in 1 .. Len(rec.way.nodes) :
                        r.way.nodes[k] =
                            IF rec.way.nodes[k].timestamp = pos.timestamp
                            THEN PosWithTimestamp_from(pos)
                            ELSE rec.way.nodes[k]

\* C6: add of a sample whose timestamp is not in the way increases the node
\* count by one, keeps the former nodes unchanged and in order, and places the
\* new node where the timestamps stay sorted.
C6_AddNewInserts ==
    \A pos \in GeoInfo :
        ~HasTimestamp(rec.way.nodes, pos.timestamp)
        => /\ ~RecordedWay_add_panics(rec, pos)
           /\ LET r == RecordedWay_add(rec, pos)
              IN /\ Len(r.way.nodes) = Len(rec.way.nodes) + 1
                 /\ \E k \in 1 .. Len(r.way.nodes) :
                        /\ r.way.nodes[k] = PosWithTimestamp_from(pos)
                        /\ VecRemove(r.way.nodes, k - 1) = rec.way.nodes
                 /\ StrictlyIncreasing(r.way.nodes)

\* C6 witness: the way holds two nodes whose timestamps leave a gap, so that
\* a sample of a timestamp between them is new and belongs between them.
C6_Witness ==
    /\ ~panicked
    /\ Len(rec.way.nodes) = 2
    /\ rec.way.nodes[1].timestamp + 1 < rec.way.nodes[2].timestamp

\* ================================= claims on the saved-position registry
PositionKnown == IsSome(curr_pos) /\ Unwrap(curr_pos).tag = "Ok"
SaveCurrPosStep(name) == SaveCurrPos(name) \/ SaveCurrPos_geo_app_rs(name)

\* C7 (as claimed): SaveCurrPos(name) with a name that is already a key reports
\* the duplicate-name error and leaves the index and the name map unchanged,
\* whatever the current position is.
C7_DuplicateNameAlwaysReported ==
    [][\A name \in Names :
         (SaveCurrPosStep(name) /\ name \in DOMAIN saved_positions_names)
         => /\ msg' = MsgAlreadyExists(name)
            /\ UNCHANGED << saved_positions, saved_positions_names >>]_vars

\* C7 (amended): SaveCurrPos(name) with a name that is already a key leaves the
\* index and the name map unchanged whatever the current position is; it
\* reports the duplicate-name error when the current position is a known
\* position, and in geo_app/mod.rs also when it is not, while geo_app.rs then
\* reports that the current position is not known.
C7_DuplicateNameLeavesRegistry ==
    [][\A name \in Names :
         (SaveCurrPosStep(name) /\ name \in DOMAIN saved_positions_names)
         => /\ UNCHANGED << saved_positions, saved_positions_names >>
            /\ msg' = IF app_version = "mod.rs" \/ PositionKnown
                      THEN MsgAlreadyExists(name)
                      ELSE MsgNotKnown]_vars

\* C7 witness: a duplicate name was refused while the last position result
\* was an acquisition error.
C7_Witness ==
    \E name \in DOMAIN saved_positions_names :
        /\ msg = MsgAlreadyExists(name)
        /\ IsSome(curr_pos)
        /\ Unwrap(curr_pos).tag = "Err"

\* C8: DelSavedPos(name) with an absent name reports name-not-found and leaves
\* the index and the name map unchanged; with a present name it removes that
\* entry from both, and no other entry.
C8_DeleteRemovesExactlyNamed ==
    [][\A name \in Names :
         DelSavedPos(name)
         => IF name \in DOMAIN saved_positions_names
            THEN /\ DOMAIN saved_positions_names' = DOMAIN saved_positions_names \ {name}
                 /\ \A n \in DOMAIN saved_positions_names' :
                        saved_positions_names'[n] = saved_positions_names[n]
                 /\ \A p \in BagToSet(saved_positions) \cup BagToSet(saved_positions') :
                        CopiesIn(p, saved_positions') =
                            CopiesIn(p, saved_positions)
                            - (IF p = saved_positions_names[name] THEN 1 ELSE 0)
            ELSE /\ msg' = MsgNotExist(name)
                 /\ UNCHANGED << saved_positions, saved_positions_names >>]_vars

\* C8 witness: one of two saved positions was deleted, the other one is left.
C8_Witness ==
    \E name \in Names :
        /\ msg = MsgRemoved(name)
        /\ name \notin DOMAIN saved_positions_names
        /\ DOMAIN saved_positions_names # {}
        /\ BagCardinality(saved_positions) = 1

\* C9: in every reachable state the index holds exactly the values of the
\* name map, each once, every key of the name map is the name of its value,
\* and no two index entries share a name.
C9_RegistryConsistent ==
    /\ BagToSet(saved_positions) =
            {saved_positions_names[n] : n \in DOMAIN saved_positions_names}
    /\ \A p \in BagToSet(saved_positions) : CopiesIn(p, saved_positions) = 1
    /\ \A n \in DOMAIN saved_positions_names : saved_positions_names[n].name = n
    /\ \A p, q \in BagToSet(saved_positions) : p.name = q.name => p = q

\* C9 witness: two positions are saved and the write of the registry has been
\* requested.
C9_Witness ==
    /\ Cardinality(DOMAIN saved_positions_names) = 2
    /\ BagCardinality(saved_positions) = 2
    /\ save_saved_positions \in pending

\* C10: a saved position stays in the index and in the name map in every step
\* that is not the processing of DelSavedPos with its name.
C10_SavedStaysUntilDeleted ==
    [][\A name \in DOMAIN saved_positions_names :
         \/ DelSavedPos(name)
         \/ /\ name \in DOMAIN saved_positions_names'
            /\ saved_positions_names'[name] = saved_positions_names[name]
            /\ BagIn(saved_positions_names[name], saved_positions')]_vars

\* C11: SaveCurrPos(name) with an unused name, processed while no position
\* result has ever been received (curr_pos is None), reports that the current
\* position is not known and leaves the index and the name map unchanged.
C11_NoPositionReported ==
    [][\A name \in Names :
         (SaveCurrPosStep(name) /\ curr_pos = None
            /\ name \notin DOMAIN saved_positions_names)
         => /\ msg' = MsgNotKnown
            /\ UNCHANGED << saved_positions, saved_positions_names >>]_vars

\* C11 witness: the error was reported in geo_app/mod.rs (so for an unused
\* name) while no position result has been received and the registry, loaded
\* from the store, holds a position.
C11_Witness ==
    /\ app_version = "mod.rs"
    /\ curr_pos = None
    /\ msg = MsgNotKnown
    /\ Cardinality(DOMAIN saved_positions_names) = 1

\* A position was received: the active way has a node.
SomePositionReceived == IsSome(all_positions) /\ Len(Unwrap(all_positions).way.nodes) > 0
AcquisitionFailed == IsSome(curr_pos) /\ Unwrap(curr_pos).tag = "Err"

\* C12: when a position was received and the latest position result is an
\* acquisition error, SaveCurrPos(name) with an unused name saves a position
\* under that name, with the coordinates of a received position.
C12_SavesLastKnownGood ==
    [][\A name \in Names :
         (SaveCurrPosStep(name) /\ SomePositionReceived /\ AcquisitionFailed
            /\ name \notin DOMAIN saved_positions_names)
         => /\ name \in DOMAIN saved_positions_names'
            /\ \E k \in 1 .. Len(Unwrap(all_positions).way.nodes) :
                 coords(saved_positions_names'[name])
                    = coords(Unwrap(all_positions).way.nodes[k])]_vars

\* C13: what SaveCurrPos with an unused name reports when the latest position
\* result is an acquisition error differs from what it reports when no
\* position result has ever been received (C11: the message that the current
\* position is not known, nothing else changed).
C13_ErrorDistinctFromUnknown ==
    [][\A name \in Names :
         (SaveCurrPosStep(name) /\ AcquisitionFailed
            /\ name \notin DOMAIN saved_positions_names)
         => ~(/\ msg' = MsgNotKnown
              /\ UNCHANGED << saved_positions, saved_positions_names, pending, written >>)]_vars

\* C14: GeolocationUpdate(Err e) leaves the active way unchanged;
\* GeolocationUpdate(Ok p) creates the way with exactly the node of p when
\* there is none, and otherwise folds p into the same way by RecordedWay::add,
\* whatever position results came before.
C14_ErrorKeepsRecording ==
    [][\A r \in TrackResults :
         GeolocationUpdate(r)
         => IF r.tag = "Err"
            THEN UNCHANGED all_positions
            ELSE IF all_positions = None
            THEN /\ IsSome(all_positions')
                 /\ Unwrap(all_positions').way.nodes = << PosWithTimestamp_from(r.val) >>
            ELSE /\ ~panicked'
                 /\ all_positions' = Some(RecordedWay_add(Unwrap(all_positions), r.val))
                 /\ \E k \in 1 .. Len(Unwrap(all_positions').way.nodes) :
                        Unwrap(all_positions').way.nodes[k] = PosWithTimestamp_from(r.val)]_vars

\* C14 witness: the latest result is an acquisition error and the active way
\* still holds the two nodes recorded before it.
C14_Witness ==
    /\ AcquisitionFailed
    /\ IsSome(all_positions)
    /\ Len(Unwrap(all_positions).way.nodes) = 2

\* C15: SetData with bytes that cannot be deserialized, for either key, sets
\* the decoding-error message and leaves the index, the name map and the
\* recorded-ways map exactly as they were.
C15_UndecodableKeepsState ==
    [][\A key \in {SAVED_POSITIONS_KEY, RECORDED_WAYS_KEY} :
         SetData(KvOk(Some(Garbage)), key)
         => /\ msg' = MsgDecodeError(key)
            /\ UNCHANGED << saved_positions, saved_positions_names, recorded_ways >>]_vars

\* C15 witness: the decoding error of the registry was reported while the
\* registry holds a position.
C15_Witness ==
    /\ msg = MsgDecodeError(SAVED_POSITIONS_KEY)
    /\ BagCardinality(saved_positions) = 1
    /\ Cardinality(DOMAIN saved_positions_names) = 1

\* ------------------------------------------------------------------- C16
\* The entries of v are n entries of the registry, or all of them if there
\* are fewer, each once, nearest to c first, and no entry left out is
\* strictly nearer to c than an entry of v.
IsNearestSelection(v, n, c) ==
    LET k == BagCardinality(saved_positions)
        d(name) == Distance(c, saved_positions_names[name].pos.coords)
        chosen == {v[i].name : i \in DOMAIN v}
    IN /\ Len(v) = IF n < k THEN n ELSE k
       /\ chosen \subseteq DOMAIN saved_positions_names
       /\ \A i, j \in DOMAIN v : i # j => v[i].name # v[j].name
       /\ \A i, j \in DOMAIN v : i < j => d(v[i].name) <= d(v[j].name)
       /\ \A m \in DOMAIN saved_positions_names \ chosen : \A x \in chosen : d(x) <= d(m)

\* C16: with the current coordinate known, the saved positions offered to the
\* view after n were requested are min(n, k) distinct entries of the
\* registry of k entries, in order of non-decreasing distance from the
\* current coordinate, and no omitted entry is strictly nearer than an
\* included one (none if the registry is empty).
C16_ViewShowsNearest ==
    (IsSome(curr_pos) /\ Unwrap(curr_pos).tag = "Ok")
        => LET c == Unwrap(curr_pos).val.coords
           IN IF app_version = "mod.rs"
              THEN \A v \in ViewModel_saved_positions :
                        IsNearestSelection(v, view_n_saved_positions, c)
              ELSE /\ IsNearestSelection(view_saved_positions, view_n_saved_positions, c)
                   /\ \A i \in DOMAIN view_saved_positions :
                        view_saved_positions[i] =
                            saved_positions_names[view_saved_positions[i].name]

\* One of two entries at different distances was requested and is shown.
C16_Witness ==
    /\ IsSome(curr_pos) /\ Unwrap(curr_pos).tag = "Ok"
    /\ view_n_saved_positions = 1
    /\ app_version = "geo_app.rs"
    /\ Len(view_saved_positions) = 1
    /\ \E a, b \in DOMAIN saved_positions_names :
            Distance(Unwrap(curr_pos).val.coords, saved_positions_names[a].pos.coords)
                < Distance(Unwrap(curr_pos).val.coords, saved_positions_names[b].pos.coords)

\* ------------------------------------------------------------------- C17
\* C17: get_since(t) returns exactly the nodes whose timestamp is at or after
\* t, as the contiguous tail of the way in its order, the node of timestamp
\* t included: the whole way if t is not after the first node, nothing if t
\* is after the last node.
C17_GetSinceIsSuffix ==
    \A t \in QueryTimestamps :
        LET nodes == rec.way.nodes
            since == RecordedWay_get_since(rec, t)
        IN /\ since = SelectSeq(nodes, LAMBDA x : x.timestamp >= t)
           /\ since = SubSeq(nodes, Len(nodes) - Len(since) + 1, Len(nodes))
           /\ (\A k \in DOMAIN nodes : nodes[k].timestamp >= t) => since = nodes
           /\ (\A k \in DOMAIN nodes : nodes[k].timestamp < t) => since = << >>

\* A way of three nodes asked for the positions since its second node.
C17_Witness ==
    /\ Len(rec.way.nodes) = 3
    /\ RecordedWay_get_since(rec, rec.way.nodes[2].timestamp)
            = << rec.way.nodes[2], rec.way.nodes[3] >>

\* ------------------------------------------------------------------- C18
\* The r-th smallest of the values of the sequence v, counted with
\* repetitions.
RankOf(v, r) ==
    CHOOSE x \in {v[i] : i \in DOMAIN v} :
        /\ Cardinality({i \in DOMAIN v : v[i] < x}) < r
        /\ r <= Cardinality({i \in DOMAIN v : v[i] <= x})

\* C18: median_accuracy is the middle one of the accuracies the nodes report
\* if their number is odd, the mean of the two middle ones if it is even and
\* not zero, and None if no node reports an accuracy (values in half units).
C18_MedianAccuracy ==
    LET present == FilterMapAccuracy(way.nodes)
        k == Len(present)
        median == Way_median_accuracy(way).median
    IN IF k = 0 THEN median = None
       ELSE IF k % 2 = 1 THEN median = Some(2 * RankOf(present, (k + 1) \div 2))
       ELSE median = Some(RankOf(present, k \div 2) + RankOf(present, k \div 2 + 1))

\* Three nodes, two of them with different accuracies, the larger one first,
\* and the cache filled by a read.
C18_Witness ==
    /\ Len(way.nodes) = 3
    /\ IsSome(way.accuracies)
    /\ Len(FilterMapAccuracy(way.nodes)) = 2
    /\ FilterMapAccuracy(way.nodes)[1] > FilterMapAccuracy(way.nodes)[2]
    /\ Way_median_accuracy(way).median
            = Some(FilterMapAccuracy(way.nodes)[1] + FilterMapAccuracy(way.nodes)[2])

\* ------------------------------------------------------------------- C19
\* c2 is c after at most one removal and at most one insertion, and in order.
IsOrderedEdit(c, c2) ==
    /\ NonDecreasing(c2)
    /\ \A a \in Lengths : CountIn(c2, a) - CountIn(c, a) \in {-1, 0, 1}
    /\ Cardinality({a \in Lengths : CountIn(c2, a) > CountIn(c, a)}) <= 1
    /\ Cardinality({a \in Lengths : CountIn(c2, a) < CountIn(c, a)}) <= 1

\* C19: the accuracy cache is filled only by a read: a step that fills it is
\* the step of accuracies() (median_accuracy reads through it), so append,
\* insert and update leave an unfilled cache unfilled.  A filled cache stays
\* filled; a step that keeps the nodes, as a read does, keeps the cache as it
\* is, and a mutator changes it by removing and inserting single elements in
\* order.
C19_CacheLifecycle ==
    [][IF IsSome(way.accuracies)
       THEN /\ IsSome(way'.accuracies)
            /\ way'.nodes = way.nodes => way' = way
            /\ IsOrderedEdit(Unwrap(way.accuracies), Unwrap(way'.accuracies))
       ELSE IsSome(way'.accuracies) => way' = Way_accuracies(way)]_vars

\* A filled cache that has grown to three elements, not all the same.
C19_Witness ==
    /\ IsSome(way.accuracies)
    /\ Len(Unwrap(way.accuracies)) = 3
    /\ Unwrap(way.accuracies)[1] < Unwrap(way.accuracies)[3]

\* ------------------------------------------------------------------- C20
\* C20: the queries change no data: accuracies() and median_accuracy() leave
\* nodes() and length() as they are (they fill the cache at most),
\* get_since() leaves the way as it is, and selecting the n nearest saved
\* positions leaves the index and the name map as they are.
C20_QueriesChangeNoData ==
    [][/\ (RecReadAccuracies \/ RecMedianAccuracy)
            => /\ rec'.way.nodes = rec.way.nodes
               /\ rec'.way.length = rec.way.length
       /\ (\E timestamp \in QueryTimestamps : RecGetSince(timestamp)) => rec' = rec
       /\ (\E n \in 0 .. MaxNames + 1 : ViewNSavedPositions(n))
            => UNCHANGED << saved_positions, saved_positions_names >>]_vars

\* A way of some length whose cache a query has filled, and a selection made
\* from a registry that is not empty.
C20_Witness ==
    /\ IsSome(rec.way.accuracies)
    /\ Len(rec.way.nodes) >= 2
    /\ rec.way.length > 0
    /\ Len(Unwrap(rec.way.accuracies)) < Len(rec.way.nodes)
    /\ view_n_saved_positions > 0
    /\ saved_positions # EmptyBag

\* ------------------------------------------------------------------- C21
\* Cosine and sine, in thousandths, of the angles the sampled points lie at:
\* the fraction num / den of an arc of `quarters` quarter turns.
ArcCosSin(quarters, num, den) ==
    LET deg == (quarters * 90 * 2 * num) \div den   \* in half degrees
    IN CASE deg = 0 -> << 1000, 0 >>
         [] deg = 45 -> << 924, 383 >>
         [] deg = 60 -> << 866, 500 >>
         [] deg = 90 -> << 707, 707 >>
         [] deg = 120 -> << 500, 866 >>
         [] deg = 180 -> << 0, 1000 >>
         [] deg = 360 -> << -1000, 0 >>
\* The quarter turns between the endpoints of l: 0, 1 or 2.
ArcQuarters(l) ==
    IF l.start = l.end THEN 0 ELSE IF dot_prod(l.start, l.end) = 0 THEN 1 ELSE 2
\* The projection on direction of the point of l at the fraction num / den
\* (Sphere::interpolated_pos: start turned towards end about the normal),
\* counted in 1/125000.
HeightAt(l, direction, num, den) ==
    LET cs == ArcCosSin(ArcQuarters(l), num, den)
    IN cs[1] * 5 * dot_prod(direction, l.start)
        + cs[2] * dot_prod(direction, cross_prod(l.normal, l.start))
Fractions == {<< 0, 1 >>, << 1, 4 >>, << 1, 3 >>, << 1, 2 >>, << 1, 1 >>}

\* C21: for every arc between coordinates of latitude and longitude 0, +-90
\* or +-180 degrees and every axis direction, extrema returns (min, max)
\* with -1 <= min <= max <= 1, both endpoint projections between min and
\* max, and the projections of the points at the fractions 0, 1/4, 1/3, 1/2
\* and 1 of the arc between min and max.
C21_ExtremaBoundsArc ==
    IsSome(extrema) =>
        LET l == Unwrap(line)
            d == Unwrap(extrema).direction
            r == Unwrap(extrema).result
        IN /\ -25 <= r.min /\ r.min <= r.max /\ r.max <= 25
           /\ r.min <= dot_prod(d, l.start) /\ dot_prod(d, l.start) <= r.max
           /\ r.min <= dot_prod(d, l.end) /\ dot_prod(d, l.end) <= r.max
           /\ \A f \in Fractions :
                /\ 5000 * r.min <= HeightAt(l, d, f[1], f[2])
                /\ HeightAt(l, d, f[1], f[2]) <= 5000 * r.max

\* An arc between antipodal endpoints that rises above both of them, off the
\* axes.
C21_Witness ==
    /\ IsSome(extrema)
    /\ Unwrap(line).start # Unwrap(line).end
    /\ dot_prod(Unwrap(line).start, Unwrap(line).end) # 0
    /\ Unwrap(extrema).result.max > dot_prod(Unwrap(extrema).direction, Unwrap(line).start)
    /\ Unwrap(extrema).result.max > dot_prod(Unwrap(extrema).direction, Unwrap(line).end)
    /\ Unwrap(extrema).result.max < 25


\* C22: for a query coordinate c and saved coordinates a and b, distance_2
\* to the point of c is smaller for a than for b exactly when a is nearer to c
\* than b along the surface.
C22_ChordOrdersAsGeodesic ==
    (IsSome(places) /\ IsSome(chords)) =>
        LET p == Unwrap(places)
            d == Unwrap(chords)
        IN (d.a < d.b) <=> GeodesicNearer(rtree_point_LatLong(p.a),
                                          rtree_point_LatLong(p.b),
                                          rtree_point_LatLong(p.c))

\* Both saved coordinates are more than a quarter turn away from c, off the
\* axes, and a is the nearer one.
C22_Witness ==
    /\ IsSome(places)
    /\ IsSome(chords)
    /\ LET p == Unwrap(places)
           d == Unwrap(chords)
           c == rtree_point_LatLong(p.c)
       IN /\ d.a < d.b
          /\ dot_prod(rtree_point_LatLong(p.a), c) < 0
          /\ dot_prod(rtree_point_LatLong(p.b), c) > -25
          /\ p.a.lat # 0
          /\ p.b.lat = 0


\* C23: when the bytes the shell holds for a key were written from the
\* structure the core holds, SetData with these bytes decodes them and leaves
\* the same saved positions, and the same ways: the same nodes in the same
\* order, the same length and the same result of accuracies().
SameWays(ways_1, ways_2) ==
    /\ DOMAIN ways_1 = DOMAIN ways_2
    /\ \A n \in DOMAIN ways_1 :
          /\ ways_1[n].way.nodes = ways_2[n].way.nodes
          /\ ways_1[n].way.length = ways_2[n].way.length
          /\ Way_accuracies(ways_1[n].way).accuracies
                = Way_accuracies(ways_2[n].way).accuracies
C23_ReloadRoundTrips ==
    [][\A key \in {SAVED_POSITIONS_KEY, RECORDED_WAYS_KEY} :
          (/\ GetRequest(key) \in pending
           /\ GetRequest(key) \notin pending'
           /\ IsSome(Unwrap(written)[key]))
          => /\ msg' = msg
             /\ saved_positions' = saved_positions
             /\ saved_positions_names' = saved_positions_names
             /\ SameWays(recorded_ways', recorded_ways)]_vars

\* The recorded ways have been read back: a way of two nodes whose accuracies
\* are in descending order has lost its cache, and no Get is pending.
C23_Witness ==
    /\ \A key \in {SAVED_POSITIONS_KEY, RECORDED_WAYS_KEY} : GetRequest(key) \notin pending
    /\ IsSome(Unwrap(written)[RECORDED_WAYS_KEY])
    /\ \A n \in Names :
          /\ n \in DOMAIN recorded_ways
          /\ ~IsSome(recorded_ways[n].way.accuracies)
          /\ Len(recorded_ways[n].way.nodes) = 2
          /\ FilterMapAccuracy(recorded_ways[n].way.nodes) = << 2, 1 >>


\* ================================================ claims on the event loop
\* The messages the application shows.
CoreMessages ==
    {<< "" >>, MsgNotKnown, MsgNoPositions}
    \cup UNION {{MsgAlreadyExists(n), MsgRemoved(n), MsgNotExist(n), MsgNameInUse(n),
                 MsgWayNotExist(n)} : n \in CoreNames}
    \cup UNION {{MsgDecodeError(k), MsgRetrieveError(k), MsgSerializeError(k)} :
                 k \in {SAVED_POSITIONS_KEY, RECORDED_WAYS_KEY}}

\* C24: no sequence of events the shell delivers and of answers to the
\* requests of the core ends in a panic: the core keeps running and shows one
\* of its messages, whatever goes wrong.
C24_NoFatalFailure ==
    /\ ~panicked
    /\ msg \in CoreMessages

\* Bytes that are no encoding were answered while a way is recorded, and the
\* core goes on with a message.
C24_Witness ==
    /\ msg = MsgDecodeError(SAVED_POSITIONS_KEY)
    /\ IsSome(all_positions)
    /\ recorded_ways # << >>
    /\ ~panicked

\* ============================================ claims on crux_geolocation
\* A watch is running: a WatchPosition request was sent and no ClearWatch
\* request after it.
WatchActive(sent) ==
    \E i \in 1 .. Len(sent) :
        /\ sent[i].op = "WatchPosition"
        /\ \A j \in i + 1 .. Len(sent) : sent[j].op # "ClearWatch"

\* C25: while a watch is running, clear_watch and a further watch_position
\* send a ClearWatch request to the shell before anything else; with no watch
\* running, clear_watch sends nothing.
C25_ClearWatchSentFirst ==
    [][(/\ geo_tasks # << >>
        /\ geo_tasks' = Tail(geo_tasks)
        /\ Head(geo_tasks) \in {"clear_watch", "watch_position"})
       => IF WatchActive(geo_sent)
          THEN /\ Len(geo_sent') > Len(geo_sent)
               /\ geo_sent'[Len(geo_sent) + 1].op = "ClearWatch"
          ELSE Head(geo_tasks) = "clear_watch" => geo_sent' = geo_sent]_vars

\* ============================================== claims on the web shell
\* C26: GeoWatch::stop is idempotent: whatever the state, one call pauses the
\* watcher of an Alive state or clears the timeout of a Retry state and leaves
\* the state Idle, and a second call changes nothing.
C26_StopIdempotent ==
    LET once == GeoWatch_stop(ShellState)
        twice == GeoWatch_stop(once)
    IN /\ once.geo_watch = Idle
       /\ geo_watch.tag = "Alive" => geo_watch.stop_fn \notin WatcherIds(once.watchers)
       /\ geo_watch.tag = "Retry" => geo_watch.handle \notin TimerIds(once.timers)
       /\ twice = once

\* A stop has acted on a Retry state: the state is Idle, the timeout is
\* cleared and the watcher that reported the error is still there.
C26_Witness ==
    /\ geo_watch = Idle
    /\ timers = {}
    /\ watchers # {}

\* ========================================== claims on the recorded ways
Min(a, b) == IF a < b THEN a ELSE b
\* The lists of names of saved recorded ways the view can be offered: the
\* stored list of geo_app.rs, the derived lists of geo_app/mod.rs.
OfferedRecordedWays ==
    IF app_version = "geo_app.rs"
    THEN {view_recorded_ways}
    ELSE {[i \in DOMAIN v |-> v[i].name] : v \in ViewModel_recorded_ways}
DistinctKeys(v) ==
    /\ \A i \in DOMAIN v : v[i] \in DOMAIN recorded_ways
    /\ \A i, j \in DOMAIN v : i # j => v[i] # v[j]

C28_ViewListWithinRegistry ==
    app_version = "geo_app.rs"
    => /\ \A i \in DOMAIN view_saved_positions :
              BagIn(view_saved_positions[i], saved_positions)
       /\ Len(view_saved_positions) <= view_n_saved_positions

\* A position was deleted while two were viewed: the list holds the one left.
C28_Witness ==
    /\ app_version = "geo_app.rs"
    /\ \E n \in Names : msg = MsgRemoved(n)
    /\ view_n_saved_positions = 2
    /\ Len(view_saved_positions) = 1
    /\ BagCardinality(saved_positions) = 1

\* C29: SaveAllPositions(name) fails with a message and leaves the recorded
\* ways as they are when no position was recorded yet or the name is in use;
\* DelRecordedWay(name) does so when the name is absent; when they succeed,
\* exactly the named entry is added, with the way since the app started, or
\* removed.
C29_SaveAndDeleteWays ==
    [][\A name \in Names :
          /\ SaveAllPositions(name)
             => IF ~IsSome(all_positions) \/ name \in DOMAIN recorded_ways
                THEN /\ recorded_ways' = recorded_ways
                     /\ msg' = IF IsSome(all_positions) THEN MsgNameInUse(name)
                               ELSE MsgNoPositions
                ELSE /\ DOMAIN recorded_ways' = DOMAIN recorded_ways \cup {name}
                     /\ recorded_ways'[name] = Unwrap(all_positions)
                     /\ \A n \in DOMAIN recorded_ways : recorded_ways'[n] = recorded_ways[n]
          /\ DelRecordedWay(name)
             => IF name \notin DOMAIN recorded_ways
                THEN /\ recorded_ways' = recorded_ways
                     /\ msg' = MsgWayNotExist(name)
                ELSE /\ DOMAIN recorded_ways' = DOMAIN recorded_ways \ {name}
                     /\ \A n \in DOMAIN recorded_ways' : recorded_ways'[n] = recorded_ways[n]]_vars

\* A save under a used name was refused: the way saved under it is another
\* one than the way since the app started.
C29_Witness ==
    /\ IsSome(all_positions)
    /\ \E name \in DOMAIN recorded_ways :
          /\ msg = MsgNameInUse(name)
          /\ recorded_ways[name] # Unwrap(all_positions)

\* ============================================== claims on what is written
\* The encodings of the structure a key stands for, in the state after a step.
PayloadOf(key) ==
    IF key = SAVED_POSITIONS_KEY
    THEN Serialize_saved_positions(saved_positions', saved_positions_names')
    ELSE Serialize_recorded_ways(recorded_ways')
\* The bytes last written under a key are an encoding of the structure in
\* memory, in the state after a step.
WrittenIsMemory ==
    \A key \in {SAVED_POSITIONS_KEY, RECORDED_WAYS_KEY} :
        IsSome(Unwrap(written')[key]) => Unwrap(Unwrap(written')[key]) \in PayloadOf(key)
\* A step with a write of the structure under key, a step without any write.
WritesUnder(key) ==
    /\ SetRequest(key) \in pending'
    /\ IsSome(Unwrap(written')[key])
    /\ Unwrap(Unwrap(written')[key]) \in PayloadOf(key)
    /\ \A k \in {SAVED_POSITIONS_KEY, RECORDED_WAYS_KEY} \ {key} :
          Unwrap(written')[k] = Unwrap(written)[k]
WritesNothing == written' = written /\ pending' = pending

\* C30: a SaveCurrPos or DelSavedPos that succeeds has the registry it leaves
\* written under saved_positions, a SaveAllPositions or DelRecordedWay that
\* succeeds has the map it leaves written under recorded_ways, one that fails
\* has nothing written; and after every step the bytes last written under a
\* key are the structure in memory.
C30_WrittenFollowsMemory ==
    [][/\ \A name \in CoreNames :
             /\ (SaveCurrPos(name) \/ SaveCurrPos_geo_app_rs(name) \/ DelSavedPos(name))
                => IF saved_positions_names' # saved_positions_names
                   THEN WritesUnder(SAVED_POSITIONS_KEY)
                   ELSE WritesNothing
             /\ (SaveAllPositions(name) \/ DelRecordedWay(name))
                => IF recorded_ways' # recorded_ways
                   THEN WritesUnder(RECORDED_WAYS_KEY)
                   ELSE WritesNothing
       /\ WrittenIsMemory]_vars

\* ---------------------------------------------- claims on saved ways
\* C31: a way stored by SaveAllPositions is a snapshot: a GeolocationUpdate
\* changes only the active way and leaves every saved way, its nodes and its
\* length, as it was.
C31_SavedWayIsSnapshot ==
    [][(\E r \in SnapshotResults : GeolocationUpdate(r))
          => recorded_ways' = recorded_ways]_vars
\* A way was saved and the active way has grown past it since.
C31_Witness ==
    /\ IsSome(all_positions)
    /\ \E n \in DOMAIN recorded_ways :
          /\ Len(recorded_ways[n].way.nodes) = 1
          /\ Len(Unwrap(all_positions).way.nodes) = 2
          /\ recorded_ways[n].way.nodes[1] = Unwrap(all_positions).way.nodes[1]

\* ------------------------------------- claims on the stored selection
\* C32: in geo_app.rs the stored view_saved_positions is, after every event,
\* a selection computed from the current state: the first
\* view_n_saved_positions entries of the nearest-neighbour iteration from
\* curr_pos when it is a known position, of the plain iteration otherwise.
C32_ViewListFollowsPosition ==
    app_version = "geo_app.rs"
        => view_saved_positions \in
               GeoApp_view_saved_positions(saved_positions, view_n_saved_positions,
                                           curr_pos)

\* ------------------------------------ claims on the current-time timer
\* C33: at most one current-time timer (the NotifyAfter request that leads
\* to Event::UpdateCurrTime) is outstanding at any time, however often
\* StartGeolocation and StopGeolocation are processed.
C33_OneCurrTimeTimer == time_requests.notify_after <= 1

\* ------------------------------------ claims on the web shell's watcher
\* C34: at any time at most one browser watcher or one pending retry timeout
\* exists, and it is the one the GeoWatch state records: none in Idle, the
\* watcher of stop_fn in Alive, the timeout of handle in Retry.
C34_OnlyTheRecordedWatcher ==
    /\ Cardinality(watchers) + Cardinality(timers) <= 1
    /\ geo_watch.tag = "Idle" => watchers = {} /\ timers = {}
    /\ geo_watch.tag = "Alive" => WatcherIds(watchers) = {geo_watch.stop_fn}
    /\ geo_watch.tag = "Retry" => TimerIds(timers) = {geo_watch.handle}

\* The watcher a step has started.
StartedWatcher == {w \in watchers' \ watchers : geo_watch' = Alive(w.id)}
\* min(250 * 2^n - 1 milliseconds, 10 seconds), and 0 for n = 0 (the minimum
\* is 10 seconds from n = 6 on).
ExpectedRetryTime(n) ==
    IF n = 0 THEN 0 ELSE Min(250 * 2 ^ Min(n, 20) - 1, 10000)
\* C35: the backoff counter advances by one per retry and success does not
\* reset it: a watch started while the state is Retry{n} keeps n, a watch
\* started from Idle or Alive keeps 0, a position leaves the count of the
\* watcher as it is, and an error reported to a watcher that keeps n, where
\* retry_time(n) returns, schedules the retry after that time and makes the
\* state Retry{n+1}.
C35_BackoffAdvancesPerRetry ==
    [][/\ \A w \in StartedWatcher :
             w.n_retries = IF geo_watch.tag = "Retry" THEN geo_watch.n ELSE 0
       /\ (\E w \in watchers, g \in CoreGeoInfo : WatcherPosition(w, g))
             => watchers' = watchers /\ geo_watch' = geo_watch
       /\ \A w \in watchers :
             WatcherError(w, "Timeout") /\ ~panicked'
                => /\ geo_watch'.tag = "Retry"
                   /\ geo_watch'.n = w.n_retries + 1
                   /\ \E t \in timers' \ timers :
                         /\ t.id = geo_watch'.handle
                         /\ t.delay = ExpectedRetryTime(w.n_retries)]_vars

\* A watcher started by the first retry has delivered a position and then an
\* error: the state is Retry{2} and the retry is scheduled after 499 ms.
C35_Witness ==
    /\ geo_watch.tag = "Retry"
    /\ geo_watch.n = 2
    /\ IsSome(all_positions)
    /\ [id |-> geo_watch.handle, delay |-> 499] \in timers

\* C36: retry_time(n) is 0 for n = 0 and min(250 * 2^n - 1 ms, 10 s)
\* otherwise, and computing it never overflows: no error callback of a
\* watch that keeps failing ends in a panic, and the timeout of a Retry{n+1}
\* state was scheduled after that time.
C36_RetryTimeNeverOverflows ==
    /\ ~panicked
    /\ geo_watch.tag = "Retry"
          => \A t \in timers :
                t.id = geo_watch.handle => t.delay = ExpectedRetryTime(geo_watch.n - 1)

\* ------------------------------------ claims on saving and then deleting
\* C37: saving and then deleting under one unused name restores the
\* registry, also next to a saved position of the same coordinates and
\* timestamp: a SaveCurrPos that succeeds adds one entry under the name to
\* the index and to the name map and changes nothing else in them, and a
\* DelSavedPos of a name takes exactly that entry out of both again.
C37_SaveThenDeleteRestores ==
    [][\A name \in Names :
          /\ (SaveCurrPos(name) \/ SaveCurrPos_geo_app_rs(name))
                /\ saved_positions_names' # saved_positions_names
             => /\ name \notin DOMAIN saved_positions_names
                /\ HashMap_remove(saved_positions_names', name) = saved_positions_names
                /\ saved_positions' (-) SetToBag({saved_positions_names'[name]})
                      = saved_positions
          /\ DelSavedPos(name) /\ name \in DOMAIN saved_positions_names
             => /\ HashMap_insert(saved_positions_names', name, saved_positions_names[name])
                      = saved_positions_names
                /\ saved_positions' (+) SetToBag({saved_positions_names[name]})
                      = saved_positions]_vars
\* A position has been deleted next to a saved position of the same
\* coordinates and timestamp, which is still in the index and the name map.
C37_Witness ==
    /\ ~panicked
    /\ \E name \in Names :
          /\ msg = MsgRemoved(name)
          /\ name \notin DOMAIN saved_positions_names
          /\ \E other \in DOMAIN saved_positions_names :
                /\ BagIn(saved_positions_names[other], saved_positions)
                /\ \E g \in PersistGeoInfo :
                      /\ curr_pos = Some(GeoOk(g))
                      /\ SavedPos_new(other, g) = saved_positions_names[other]

\* --------------------------------------------- claims on loading data
\* C38: SetData changes only the structure of its key: for the key
\* saved_positions the recorded ways and the active way stay as they are,
\* for the key recorded_ways the index and the name map of the saved
\* positions stay as they are, and for a result Ok(None) or Err none of
\* them changes.
C38_SetDataChangesOnlyItsKey ==
    [][\A key \in {SAVED_POSITIONS_KEY, RECORDED_WAYS_KEY} :
          \A res \in CoreAnswers(key) :
             SetData(res, key)
                => /\ all_positions' = all_positions
                   /\ key = SAVED_POSITIONS_KEY => recorded_ways' = recorded_ways
                   /\ key = RECORDED_WAYS_KEY
                         => /\ saved_positions' = saved_positions
                            /\ saved_positions_names' = saved_positions_names
                   /\ res.tag = "Err" \/ ~IsSome(res.val)
                         => /\ recorded_ways' = recorded_ways
                            /\ saved_positions' = saved_positions
                            /\ saved_positions_names' = saved_positions_names]_vars
\* The recorded ways have been loaded next to a saved position and an
\* active way: the map of ways is the stored one, the registry holds the
\* position saved before.
C38_Witness ==
    /\ ~panicked
    /\ IsSome(all_positions)
    /\ DOMAIN saved_positions_names # {}
    /\ DOMAIN recorded_ways # {}
    /\ \E name \in DOMAIN recorded_ways : Some(recorded_ways[name]) # all_positions
    /\ GetRequest(RECORDED_WAYS_KEY) \notin pending
    /\ GetRequest(SAVED_POSITIONS_KEY) \in pending
====
